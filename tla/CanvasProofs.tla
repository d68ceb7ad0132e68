---------------------------- MODULE CanvasProofs -----------------------------
(***************************************************************************)
(* What Canvas promises of gestures, of what the server sends under them   *)
(* and of locks, for any waypoints, places, requests and messages.         *)
(***************************************************************************)
EXTENDS Canvas, TLAPS, SequenceTheorems, FiniteSetTheorems, WellFoundedInduction

-----------------------------------------------------------------------------
(* Induction                                                                *)

LEMMA LeastExists ==
    ASSUME NEW S, S \subseteq Nat, S # {}
    PROVE  \E m \in S : \A k \in S : m <= k
<1>1. PICK m \in S : \A y \in S : ~ (<<y, m>> \in OpToRel(<, Nat))
  BY NatLessThanWellFounded, WFMin, Zenon
<1>2. ASSUME NEW k \in S
      PROVE  m <= k
  <2>1. <<k, m>> \notin OpToRel(<, Nat)
    BY <1>1
  <2>2. ~(k < m)
    BY <2>1 DEF OpToRel
  <2> QED
    BY <2>2
<1> QED
  BY <1>2

\* Induction on the naturals, as a fact about a set.
LEMMA NatFromZero ==
    ASSUME NEW S, S \subseteq Nat, 0 \in S, \A n \in S : n + 1 \in S
    PROVE  S = Nat
<1> SUFFICES ASSUME Nat \ S # {} PROVE FALSE
  OBVIOUS
<1>1. PICK m \in Nat \ S : \A k \in Nat \ S : m <= k
  BY LeastExists
<1>2. m # 0 /\ m - 1 \in Nat /\ ~(m <= m - 1)
  OBVIOUS
<1> QED
  BY <1>1, <1>2

-----------------------------------------------------------------------------
(* Documents and ops over them                                              *)

LEMMA LowestPlace == Min(Places) \in Places
<1>1. \E x \in Places : \A y \in Places : x =< y
  BY CanvasAssumption, LeastExists
<1> QED
  BY <1>1 DEF Min

LEMMA EntitiesKnown ==
    /\ Device \in Entities /\ Zone \in Entities /\ Drawn \in Entities /\ Waypoints \subseteq Entities
    /\ Fresh \subseteq Entities /\ Zones \subseteq Entities
  BY DEF Entities, Fresh, Zones

\* Ops are a function from some entities to places.
LEMMA OpsShape ==
    ASSUME NEW f \in Ops
    PROVE  /\ DOMAIN f \subseteq Entities /\ \A e \in DOMAIN f : f[e] \in Places \cup {Gone}
           /\ f = [e \in DOMAIN f |-> f[e]]
<1>1. PICK es \in SUBSET Entities : f \in [es -> Places \cup {Gone}]
  BY DEF Ops
<1> QED
  BY <1>1

LEMMA IsOps ==
    ASSUME NEW es \in SUBSET Entities, NEW f \in [es -> Places \cup {Gone}]
    PROVE  f \in Ops
  BY DEF Ops

LEMMA RestrictedOps ==
    ASSUME NEW f \in Ops, NEW es, es \subseteq DOMAIN f
    PROVE  Restrict(f, es) \in Ops
<1>1. es \in SUBSET Entities /\ [e \in es |-> f[e]] \in [es -> Places \cup {Gone}]
  BY OpsShape
<1> QED
  BY <1>1, IsOps DEF Restrict

LEMMA RestrictedDoc ==
    ASSUME NEW doc \in Doc, NEW es \in SUBSET Entities
    PROVE  Restrict(doc, es) \in Ops
<1>1. [e \in es |-> doc[e]] \in [es -> Places \cup {Gone}]
  BY DEF Doc
<1> QED
  BY <1>1, IsOps DEF Restrict

LEMMA EachOps ==
    ASSUME NEW es \in SUBSET Entities, NEW v \in Places \cup {Gone}
    PROVE  Each(es, v) \in Ops
<1>1. [e \in es |-> v] \in [es -> Places \cup {Gone}]
  OBVIOUS
<1> QED
  BY <1>1, IsOps DEF Each

LEMMA NothingOps == Nothing \in Ops
<1>1. [e \in {} |-> Gone] \in [{} -> Places \cup {Gone}] /\ {} \in SUBSET Entities
  OBVIOUS
<1> QED
  BY <1>1, IsOps DEF Nothing

LEMMA JoinedOps ==
    ASSUME NEW f \in Ops, NEW g \in Ops
    PROVE  Atop(f, g) \in Ops
<1>1. DOMAIN f \cup DOMAIN g \in SUBSET Entities
  BY OpsShape
<1>2. [e \in DOMAIN f \cup DOMAIN g |-> IF e \in DOMAIN f THEN f[e] ELSE g[e]]
          \in [DOMAIN f \cup DOMAIN g -> Places \cup {Gone}]
  BY OpsShape
<1> QED
  BY <1>1, <1>2, IsOps DEF Atop

\* Ops on top of a document are a document.
LEMMA JoinedDoc ==
    ASSUME NEW f \in Ops, NEW doc \in Doc
    PROVE  Atop(f, doc) \in Doc
<1>1. DOMAIN f \cup DOMAIN doc = Entities
  BY OpsShape DEF Doc
<1>2. [e \in Entities |-> IF e \in DOMAIN f THEN f[e] ELSE doc[e]] \in [Entities -> Places \cup {Gone}]
  BY OpsShape DEF Doc
<1> QED
  BY <1>1, <1>2 DEF Atop, Doc

LEMMA OverDoc ==
    ASSUME NEW ops \in Ops, NEW doc \in Doc
    PROVE  Over(ops, doc) \in Doc
<1>1. \A e \in Entities : (IF e \in DOMAIN ops /\ (doc[e] # Gone \/ e \in Fresh) THEN ops[e] ELSE doc[e])
          \in Places \cup {Gone}
  BY OpsShape DEF Doc
<1> QED
  BY <1>1 DEF Over, Doc
-----------------------------------------------------------------------------
(* Recursive definitions                                                    *)

\* What is pending of each beginning of the requests is what the recursion says.
LEMMA PendingExists ==
    ASSUME NEW A, NEW own \in Seq(A)
    PROVE  Pending(own) = [n \in 0 .. Len(own) |-> IF n = 0 THEN Nothing ELSE Atop(own[n].applied, Pending(own)[n - 1])]
<1> DEFINE Next1(last, n) == Atop(own[n].applied, last)
           Keeps(f, k) == f = [n \in 0 .. k |-> IF n = 0 THEN Nothing ELSE Next1(f[n - 1], n)]
           T == {k \in Nat : \E f : Keeps(f, k)}
<1>1. 0 \in T
  <2>1. Keeps([n \in 0 .. 0 |-> Nothing], 0)
    OBVIOUS
  <2> QED
    BY <2>1
<1>2. ASSUME NEW k \in T
      PROVE  k + 1 \in T
  <2>1. PICK f : Keeps(f, k)
    OBVIOUS
  <2> DEFINE g == [n \in 0 .. k + 1 |-> IF n = k + 1 THEN Next1(f[k], k + 1) ELSE f[n]]
  <2>2. ASSUME NEW n \in 0 .. k + 1
        PROVE  g[n] = IF n = 0 THEN Nothing ELSE Next1(g[n - 1], n)
    <3> HIDE DEF Next1
    <3>1. CASE n = k + 1
      BY <3>1
    <3>2. CASE n # k + 1 /\ n # 0
      <4>1. n \in 0 .. k /\ n - 1 \in 0 .. k /\ n - 1 # k + 1 /\ n - 1 \in 0 .. k + 1
        BY <3>2
      <4>2. f[n] = Next1(f[n - 1], n)
        BY <2>1, <3>2, <4>1
      <4> QED
        BY <3>2, <4>1, <4>2
    <3>3. CASE n = 0
      <4>1. 0 \in 0 .. k /\ 0 # k + 1
        OBVIOUS
      <4> QED
        BY <2>1, <3>3, <4>1
    <3> QED
      BY <3>1, <3>2, <3>3
  <2>3. Keeps(g, k + 1)
    <3> HIDE DEF Next1
    <3>1. g = [n \in 0 .. k + 1 |-> g[n]]
      OBVIOUS
    <3> HIDE DEF g
    <3> QED
      BY <2>2, <3>1
  <2>4. k + 1 \in Nat
    OBVIOUS
  <2> HIDE DEF g, Keeps
  <2> QED
    BY <2>3, <2>4
<1>3. Len(own) \in T
  <2>1. T = Nat
    <3> HIDE DEF T
    <3>1. T \subseteq Nat
      BY DEF T
    <3> QED
      BY <1>1, <1>2, <3>1, NatFromZero
  <2> QED
    BY <2>1, LenProperties
<1> QED
  BY <1>3, Zenon DEF Pending

\* One request more.
LEMMA PendingStep ==
    ASSUME NEW A, NEW own \in Seq(A)
    PROVE  /\ Pending(own)[0] = Nothing
           /\ \A n \in 1 .. Len(own) : Pending(own)[n] = Atop(own[n].applied, Pending(own)[n - 1])
<1> DEFINE f == Pending(own)
<1>1. f = [n \in 0 .. Len(own) |-> IF n = 0 THEN Nothing ELSE Atop(own[n].applied, f[n - 1])]
  BY PendingExists
<1>2. Len(own) \in Nat
  OBVIOUS
<1> HIDE DEF f
<1>3. \A n \in 0 .. Len(own) : f[n] = IF n = 0 THEN Nothing ELSE Atop(own[n].applied, f[n - 1])
  BY <1>1
<1>4. 0 \in 0 .. Len(own) /\ \A n \in 1 .. Len(own) : n \in 0 .. Len(own) /\ n # 0
  BY <1>2
<1> QED
  BY <1>3, <1>4 DEF f

\* The requests over a document, one after another.
LEMMA ReplayedExists ==
    ASSUME NEW A, NEW own \in Seq(A), NEW doc
    PROVE  Replayed(own, doc) = [n \in 0 .. Len(own) |-> IF n = 0 THEN doc ELSE Over(own[n].applied, Replayed(own, doc)[n - 1])]
<1> DEFINE Next1(last, n) == Over(own[n].applied, last)
           Keeps(f, k) == f = [n \in 0 .. k |-> IF n = 0 THEN doc ELSE Next1(f[n - 1], n)]
           T == {k \in Nat : \E f : Keeps(f, k)}
<1>1. 0 \in T
  <2>1. Keeps([n \in 0 .. 0 |-> doc], 0)
    OBVIOUS
  <2> QED
    BY <2>1
<1>2. ASSUME NEW k \in T
      PROVE  k + 1 \in T
  <2>1. PICK f : Keeps(f, k)
    OBVIOUS
  <2> DEFINE g == [n \in 0 .. k + 1 |-> IF n = k + 1 THEN Next1(f[k], k + 1) ELSE f[n]]
  <2>2. ASSUME NEW n \in 0 .. k + 1
        PROVE  g[n] = IF n = 0 THEN doc ELSE Next1(g[n - 1], n)
    <3> HIDE DEF Next1
    <3>1. CASE n = k + 1
      BY <3>1
    <3>2. CASE n # k + 1 /\ n # 0
      <4>1. n \in 0 .. k /\ n - 1 \in 0 .. k /\ n - 1 # k + 1 /\ n - 1 \in 0 .. k + 1
        BY <3>2
      <4>2. f[n] = Next1(f[n - 1], n)
        BY <2>1, <3>2, <4>1
      <4> QED
        BY <3>2, <4>1, <4>2
    <3>3. CASE n = 0
      <4>1. 0 \in 0 .. k /\ 0 # k + 1
        OBVIOUS
      <4> QED
        BY <2>1, <3>3, <4>1
    <3> QED
      BY <3>1, <3>2, <3>3
  <2>3. Keeps(g, k + 1)
    <3> HIDE DEF Next1
    <3>1. g = [n \in 0 .. k + 1 |-> g[n]]
      OBVIOUS
    <3> HIDE DEF g
    <3> QED
      BY <2>2, <3>1
  <2>4. k + 1 \in Nat
    OBVIOUS
  <2> HIDE DEF g, Keeps
  <2> QED
    BY <2>3, <2>4
<1>3. Len(own) \in T
  <2>1. T = Nat
    <3> HIDE DEF T
    <3>1. T \subseteq Nat
      BY DEF T
    <3> QED
      BY <1>1, <1>2, <3>1, NatFromZero
  <2> QED
    BY <2>1, LenProperties
<1> QED
  BY <1>3, Zenon DEF Replayed

\* One request more.
LEMMA ReplayedStep ==
    ASSUME NEW A, NEW own \in Seq(A), NEW doc
    PROVE  /\ Replayed(own, doc)[0] = doc
           /\ \A n \in 1 .. Len(own) : Replayed(own, doc)[n] = Over(own[n].applied, Replayed(own, doc)[n - 1])
<1> DEFINE f == Replayed(own, doc)
<1>1. f = [n \in 0 .. Len(own) |-> IF n = 0 THEN doc ELSE Over(own[n].applied, f[n - 1])]
  BY ReplayedExists
<1>2. Len(own) \in Nat
  OBVIOUS
<1> HIDE DEF f
<1>3. \A n \in 0 .. Len(own) : f[n] = IF n = 0 THEN doc ELSE Over(own[n].applied, f[n - 1])
  BY <1>1
<1>4. 0 \in 0 .. Len(own) /\ \A n \in 1 .. Len(own) : n \in 0 .. Len(own) /\ n # 0
  BY <1>2
<1> QED
  BY <1>3, <1>4 DEF f

\* What was held, one message after another.
LEMMA UnheldExists ==
    ASSUME NEW A, NEW d, d.deferred \in Seq(A)
    PROVE  Unheld(d) = [n \in 0 .. Len(d.deferred) |-> IF n = 0 THEN [d EXCEPT !.deferred = << >>] ELSE TakeHeld(Unheld(d)[n - 1], d.deferred, n)]
<1> DEFINE Next1(last, n) == TakeHeld(last, d.deferred, n)
           Keeps(f, k) == f = [n \in 0 .. k |-> IF n = 0 THEN [d EXCEPT !.deferred = << >>] ELSE Next1(f[n - 1], n)]
           T == {k \in Nat : \E f : Keeps(f, k)}
<1>1. 0 \in T
  <2>1. Keeps([n \in 0 .. 0 |-> [d EXCEPT !.deferred = << >>]], 0)
    OBVIOUS
  <2> QED
    BY <2>1
<1>2. ASSUME NEW k \in T
      PROVE  k + 1 \in T
  <2>1. PICK f : Keeps(f, k)
    OBVIOUS
  <2> DEFINE g == [n \in 0 .. k + 1 |-> IF n = k + 1 THEN Next1(f[k], k + 1) ELSE f[n]]
  <2>2. ASSUME NEW n \in 0 .. k + 1
        PROVE  g[n] = IF n = 0 THEN [d EXCEPT !.deferred = << >>] ELSE Next1(g[n - 1], n)
    <3> HIDE DEF Next1
    <3>1. CASE n = k + 1
      BY <3>1
    <3>2. CASE n # k + 1 /\ n # 0
      <4>1. n \in 0 .. k /\ n - 1 \in 0 .. k /\ n - 1 # k + 1 /\ n - 1 \in 0 .. k + 1
        BY <3>2
      <4>2. f[n] = Next1(f[n - 1], n)
        BY <2>1, <3>2, <4>1
      <4> QED
        BY <3>2, <4>1, <4>2
    <3>3. CASE n = 0
      <4>1. 0 \in 0 .. k /\ 0 # k + 1
        OBVIOUS
      <4> QED
        BY <2>1, <3>3, <4>1
    <3> QED
      BY <3>1, <3>2, <3>3
  <2>3. Keeps(g, k + 1)
    <3> HIDE DEF Next1
    <3>1. g = [n \in 0 .. k + 1 |-> g[n]]
      OBVIOUS
    <3> HIDE DEF g
    <3> QED
      BY <2>2, <3>1
  <2>4. k + 1 \in Nat
    OBVIOUS
  <2> HIDE DEF g, Keeps
  <2> QED
    BY <2>3, <2>4
<1>3. Len(d.deferred) \in T
  <2>1. T = Nat
    <3> HIDE DEF T
    <3>1. T \subseteq Nat
      BY DEF T
    <3> QED
      BY <1>1, <1>2, <3>1, NatFromZero
  <2> QED
    BY <2>1, LenProperties
<1> QED
  BY <1>3, Zenon DEF Unheld

\* One message more.
LEMMA UnheldStep ==
    ASSUME NEW A, NEW d, d.deferred \in Seq(A)
    PROVE  /\ Unheld(d)[0] = [d EXCEPT !.deferred = << >>]
           /\ \A n \in 1 .. Len(d.deferred) : Unheld(d)[n] = TakeHeld(Unheld(d)[n - 1], d.deferred, n)
<1> DEFINE f == Unheld(d)
<1>1. f = [n \in 0 .. Len(d.deferred) |-> IF n = 0 THEN [d EXCEPT !.deferred = << >>] ELSE TakeHeld(f[n - 1], d.deferred, n)]
  BY UnheldExists
<1>2. Len(d.deferred) \in Nat
  OBVIOUS
<1> HIDE DEF f
<1>3. \A n \in 0 .. Len(d.deferred) : f[n] = IF n = 0 THEN [d EXCEPT !.deferred = << >>] ELSE TakeHeld(f[n - 1], d.deferred, n)
  BY <1>1
<1>4. 0 \in 0 .. Len(d.deferred) /\ \A n \in 1 .. Len(d.deferred) : n \in 0 .. Len(d.deferred) /\ n # 0
  BY <1>2
<1> QED
  BY <1>3, <1>4 DEF f

LEMMA RequestParts ==
    ASSUME NEW own \in Seq(Request), NEW n \in 1 .. Len(own)
    PROVE  /\ own[n] \in Request /\ own[n].applied \in Ops /\ own[n].ops \in Ops
           /\ own[n].left \in SUBSET Entities
<1>1. own[n] \in Request
  OBVIOUS
<1> QED
  BY <1>1 DEF Request

LEMMA PendingTyped ==
    ASSUME NEW own \in Seq(Request)
    PROVE  PendingOps(own) \in Ops
<1> DEFINE T == {k \in Nat : k <= Len(own) => Pending(own)[k] \in Ops}
<1>0. Pending(own)[0] = Nothing /\ \A n \in 1 .. Len(own) : Pending(own)[n] = Atop(own[n].applied, Pending(own)[n - 1])
  BY PendingStep
<1>1. 0 \in T
  BY <1>0, NothingOps
<1>2. ASSUME NEW k \in T
      PROVE  k + 1 \in T
  <2>1. SUFFICES ASSUME k + 1 <= Len(own) PROVE Pending(own)[k + 1] \in Ops
    OBVIOUS
  <2>2. k + 1 \in 1 .. Len(own) /\ (k + 1) - 1 = k /\ k <= Len(own)
    BY <2>1, LenProperties
  <2>3. Pending(own)[k] \in Ops /\ own[k + 1].applied \in Ops
    BY <2>2, RequestParts
  <2>4. Atop(own[k + 1].applied, Pending(own)[k]) \in Ops
    BY <2>3, JoinedOps
  <2> QED
    BY <1>0, <2>2, <2>4
<1>3. T = Nat
  <2> HIDE DEF T
  <2>1. T \subseteq Nat
    BY DEF T
  <2> QED
    BY <1>1, <1>2, <2>1, NatFromZero
<1>4. Len(own) \in T /\ Len(own) <= Len(own)
  BY <1>3, LenProperties
<1> QED
  BY <1>4 DEF PendingOps

LEMMA ReplayedTyped ==
    ASSUME NEW own \in Seq(Request), NEW doc \in Doc
    PROVE  Reapplied(own, doc) \in Doc
<1> DEFINE T == {k \in Nat : k <= Len(own) => Replayed(own, doc)[k] \in Doc}
<1>0. Replayed(own, doc)[0] = doc /\ \A n \in 1 .. Len(own) : Replayed(own, doc)[n] = Over(own[n].applied, Replayed(own, doc)[n - 1])
  BY ReplayedStep
<1>1. 0 \in T
  BY <1>0
<1>2. ASSUME NEW k \in T
      PROVE  k + 1 \in T
  <2>1. SUFFICES ASSUME k + 1 <= Len(own) PROVE Replayed(own, doc)[k + 1] \in Doc
    OBVIOUS
  <2>2. k + 1 \in 1 .. Len(own) /\ (k + 1) - 1 = k /\ k <= Len(own)
    BY <2>1, LenProperties
  <2>3. Replayed(own, doc)[k] \in Doc /\ own[k + 1].applied \in Ops
    BY <2>2, RequestParts
  <2>4. Over(own[k + 1].applied, Replayed(own, doc)[k]) \in Doc
    BY <2>3, OverDoc
  <2> QED
    BY <1>0, <2>2, <2>4
<1>3. T = Nat
  <2> HIDE DEF T
  <2>1. T \subseteq Nat
    BY DEF T
  <2> QED
    BY <1>1, <1>2, <2>1, NatFromZero
<1>4. Len(own) \in T /\ Len(own) <= Len(own)
  BY <1>3, LenProperties
<1> QED
  BY <1>4 DEF Reapplied

-----------------------------------------------------------------------------
(* The canvas, field by field                                               *)

LEMMA CanvasParts ==
    ASSUME NEW d \in Canvases
    PROVE  /\ d.model \in Doc /\ d.live \in Live /\ d.preview \in Doc /\ d.selection \in SUBSET Entities
           /\ d.readOnly \in BOOLEAN /\ d.own \in Seq(Request) /\ d.deferred \in Seq(Message) /\ d.overtaken \in BOOLEAN
  BY DEF Canvases

\* What neither asks nor answers: the requests, what is held and the lock stay. That an
\* answer overtook a hand is never forgotten.
Around(d, e) ==
    /\ e \in Canvases /\ e.own = d.own /\ e.deferred = d.deferred /\ e.readOnly = d.readOnly
    /\ d.overtaken => e.overtaken

LEMMA WriteAround ==
    ASSUME NEW d \in Canvases, NEW doc \in Doc
    PROVE  Around(d, Write(d, doc)) /\ Write(d, doc).live = d.live /\ Write(d, doc).model = doc
<1>1. d.selection \cap Alive(doc) \in SUBSET Entities
  BY CanvasParts
<1> QED
  BY <1>1 DEF Write, Around, Canvases

LEMMA PreviewAround ==
    ASSUME NEW d \in Canvases, NEW v \in Doc
    PROVE  Around(d, [d EXCEPT !.preview = v]) /\ [d EXCEPT !.preview = v].live = d.live
  BY DEF Around, Canvases

LEMMA SelectionAround ==
    ASSUME NEW d \in Canvases, NEW v \in SUBSET Entities
    PROVE  /\ Around(d, [d EXCEPT !.selection = v])
           /\ [d EXCEPT !.selection = v].live = d.live /\ [d EXCEPT !.selection = v].model = d.model
  BY DEF Around, Canvases

LEMMA LiveAround ==
    ASSUME NEW d \in Canvases, NEW v \in Live
    PROVE  /\ Around(d, [d EXCEPT !.live = v])
           /\ [d EXCEPT !.live = v].live = v /\ [d EXCEPT !.live = v].model = d.model
           /\ [d EXCEPT !.live = v].selection = d.selection
  BY DEF Around, Canvases

LEMMA NoPreviewDoc == NoPreview \in Doc
  BY DEF NoPreview, Doc

\* A gesture of any name, on anything.
LEMMA GestureLive ==
    ASSUME NEW name \in Editing \cup Engaged \cup {"none", "pending"}, NEW e \in Entities
    PROVE  Gesture(name, e) \in Live /\ Gesture(name, e).name = name
  BY NoPreviewDoc DEF Gesture, Live

LEMMA IdleLive ==
    Idle \in Live /\ Idle.name = "none" /\ Idle.name \notin Engaged /\ Idle.name \notin Editing
<1>1. "none" \in Editing \cup Engaged \cup {"none", "pending"} /\ "none" \notin Engaged /\ "none" \notin Editing
  BY DEF Engaged, Editing
<1> QED
  BY <1>1, EntitiesKnown, GestureLive DEF Idle

\* A request joins the unanswered ones.
Asked(d, e) ==
    /\ e \in Canvases /\ Len(e.own) = Len(d.own) + 1
    /\ e.deferred = d.deferred /\ e.readOnly = d.readOnly /\ e.live = d.live
    /\ d.overtaken => e.overtaken

LEMMA AppendOwn ==
    ASSUME NEW d \in Canvases, NEW r \in Request
    PROVE  Asked(d, [d EXCEPT !.own = Append(@, r)])
<1>1. d.own \in Seq(Request)
  BY CanvasParts
<1>2. Append(d.own, r) \in Seq(Request) /\ Len(Append(d.own, r)) = Len(d.own) + 1
  BY <1>1
<1> QED
  BY <1>2 DEF Asked, Canvases

LEMMA CommitAsks ==
    ASSUME NEW d \in Canvases, NEW ops \in Ops, NEW refused \in BOOLEAN
    PROVE  Asked(d, CommitDrawn(d, ops, refused))
<1> DEFINE asked == [undo |-> FALSE, ops |-> ops, applied |-> IF refused THEN Nothing ELSE ops,
                     left |-> IF refused THEN DOMAIN ops ELSE {}]
           doc == IF refused THEN d.model ELSE Over(ops, d.model)
           drawn == Write(d, doc)
<1>1. asked \in Request
  BY NothingOps, OpsShape DEF Request
<1>2. doc \in Doc
  BY OverDoc, CanvasParts
<1>3. CommitDrawn(d, ops, refused) = [drawn EXCEPT !.own = Append(@, asked)]
  BY DEF CommitDrawn
<1> HIDE DEF asked, doc
<1>4. Around(d, drawn) /\ drawn.live = d.live
  BY <1>2, WriteAround
<1> HIDE DEF drawn
<1>5. drawn \in Canvases
  BY <1>4 DEF Around
<1>6. Asked(drawn, [drawn EXCEPT !.own = Append(@, asked)])
  BY <1>1, <1>5, AppendOwn
<1> QED
  BY <1>3, <1>4, <1>6 DEF Asked, Around

-----------------------------------------------------------------------------
(* What the server sends                                                    *)

LEMMA TakeAround ==
    ASSUME NEW d \in Canvases, NEW ops \in Ops, NEW own \in Seq(Request)
    PROVE  Around(d, Take(d, ops, own)) /\ Take(d, ops, own).live = d.live
<1> DEFINE pending == PendingOps(own)
           kept == Restrict(pending, DOMAIN ops \cap DOMAIN pending)
           under == Atop(ops, d.model)
           told == d.overtaken \/ (d.live.name = "handle" /\ d.live.of \in DOMAIN ops)
           seen == [d EXCEPT !.overtaken = told]
<1>1. pending \in Ops
  BY PendingTyped
<1> HIDE DEF pending
<1>2. kept \in Ops
  BY <1>1, RestrictedOps
<1>3. under \in Doc
  BY CanvasParts, JoinedDoc
<1> HIDE DEF kept, under
<1>4. Over(kept, under) \in Doc
  BY <1>2, <1>3, OverDoc
<1>5. told \in BOOLEAN /\ (d.overtaken => told)
  BY CanvasParts
<1> HIDE DEF told
<1>6. seen \in Canvases /\ Around(d, seen) /\ seen.live = d.live
  BY <1>5 DEF Around, Canvases
<1> HIDE DEF seen
<1>7. Take(d, ops, own) = Write(seen, Over(kept, under))
  BY DEF Take, kept, under, pending, seen, told
<1>8. Around(seen, Write(seen, Over(kept, under))) /\ Write(seen, Over(kept, under)).live = seen.live
  BY <1>4, <1>6, WriteAround
<1> QED
  BY <1>6, <1>7, <1>8 DEF Around

LEMMA MessageParts ==
    ASSUME NEW m \in Message
    PROVE  /\ m.cmd \in {"change", "ack", "snapshot"}
           /\ m.cmd \in {"change", "ack"} => m.ops \in Ops
           /\ m.cmd = "snapshot" => m.doc \in Doc
  BY DEF Message

LEMMA ChangeAround ==
    ASSUME NEW d \in Canvases, NEW m \in Message, m.cmd = "change"
    PROVE  Around(d, ApplyChange(d, m)) /\ ApplyChange(d, m).live = d.live
<1>1. m.ops \in Ops /\ d.own \in Seq(Request)
  BY MessageParts, CanvasParts
<1> QED
  BY <1>1, TakeAround DEF ApplyChange

\* An answer takes one request off.
Answer(d, e) ==
    /\ e \in Canvases /\ Len(e.own) + 1 = Len(d.own)
    /\ e.deferred = d.deferred /\ e.readOnly = d.readOnly /\ e.live = d.live
    /\ d.overtaken => e.overtaken

LEMMA AckAnswers ==
    ASSUME NEW d \in Canvases, NEW m \in Message, m.cmd = "ack", d.own # << >>
    PROVE  Answer(d, ApplyAck(d, m))
<1> DEFINE mine == Head(d.own)
           derived == {e \in DOMAIN m.ops : ~(e \in DOMAIN mine.applied /\ mine.applied[e] = m.ops[e])}
           rest == [d EXCEPT !.own = Tail(@)]
<1>1. m.ops \in Ops /\ d.own \in Seq(Request)
  BY MessageParts, CanvasParts
<1>2. Tail(d.own) \in Seq(Request) /\ Len(Tail(d.own)) + 1 = Len(d.own)
  BY <1>1
<1>3. rest \in Canvases /\ rest.own = Tail(d.own) /\ rest.deferred = d.deferred
      /\ rest.readOnly = d.readOnly /\ rest.live = d.live /\ rest.overtaken = d.overtaken
  BY <1>2 DEF Canvases
<1>4. derived \subseteq DOMAIN m.ops
  OBVIOUS
<1>5. ApplyAck(d, m) = Take(rest, Restrict(m.ops, derived), Tail(d.own))
  BY DEF ApplyAck
<1> HIDE DEF rest, derived
<1>6. Restrict(m.ops, derived) \in Ops
  BY <1>1, <1>4, RestrictedOps
<1>7. /\ Around(rest, Take(rest, Restrict(m.ops, derived), Tail(d.own)))
      /\ Take(rest, Restrict(m.ops, derived), Tail(d.own)).live = rest.live
  BY <1>2, <1>3, <1>6, TakeAround
<1> QED
  BY <1>2, <1>3, <1>5, <1>7 DEF Around, Answer

LEMMA LoadAround ==
    ASSUME NEW d \in Canvases, NEW m \in Message, m.cmd = "snapshot"
    PROVE  Around(d, Load(d, m)) /\ Load(d, m).live = Idle
<1> DEFINE idle == [d EXCEPT !.live = Idle]
<1>1. m.doc \in Doc /\ d.own \in Seq(Request)
  BY MessageParts, CanvasParts
<1>2. Reapplied(d.own, m.doc) \in Doc
  BY <1>1, ReplayedTyped
<1>3. Around(d, idle) /\ idle.live = Idle
  BY LiveAround, IdleLive
<1>4. Load(d, m) = Write(idle, Reapplied(d.own, m.doc))
  BY DEF Load
<1> HIDE DEF idle
<1>5. /\ Around(idle, Write(idle, Reapplied(d.own, m.doc)))
      /\ Write(idle, Reapplied(d.own, m.doc)).live = idle.live
  <2>1. idle \in Canvases
    BY <1>3 DEF Around
  <2> QED
    BY <1>2, <2>1, WriteAround
<1> QED
  BY <1>3, <1>4, <1>5 DEF Around

-----------------------------------------------------------------------------
(* Answers that wait                                                        *)

Answers(msgs, k) == {i \in 1 .. k : msgs[i].cmd = "ack"}
Waiting(d) == Cardinality(Answers(d.deferred, Len(d.deferred)))

LEMMA AnswersCounted ==
    ASSUME NEW msgs, NEW k \in Nat
    PROVE  /\ IsFiniteSet(Answers(msgs, k)) /\ Cardinality(Answers(msgs, k)) \in Nat
           /\ Cardinality(Answers(msgs, 0)) = 0
           /\ Cardinality(Answers(msgs, k + 1)) =
                Cardinality(Answers(msgs, k)) + (IF msgs[k + 1].cmd = "ack" THEN 1 ELSE 0)
<1>1. IsFiniteSet(1 .. k)
  BY FS_Interval
<1>2. Answers(msgs, k) \subseteq 1 .. k
  BY DEF Answers
<1>3. IsFiniteSet(Answers(msgs, k))
  BY <1>1, <1>2, FS_Subset
<1>4. Cardinality(Answers(msgs, k)) \in Nat
  BY <1>3, FS_CardinalityType
<1>5. Answers(msgs, 0) = {}
  BY DEF Answers
<1>6. Cardinality({}) = 0
  BY FS_EmptySet
<1>7. CASE msgs[k + 1].cmd = "ack"
  <2>1. Answers(msgs, k + 1) = Answers(msgs, k) \cup {k + 1}
    BY <1>7 DEF Answers
  <2>2. k + 1 \notin Answers(msgs, k)
    BY DEF Answers
  <2> QED
    BY <1>3, <1>4, <1>5, <1>6, <1>7, <2>1, <2>2, FS_AddElement
<1>8. CASE msgs[k + 1].cmd # "ack"
  <2>1. Answers(msgs, k + 1) = Answers(msgs, k)
    BY <1>8 DEF Answers
  <2> QED
    BY <1>3, <1>4, <1>5, <1>6, <1>8, <2>1
<1> QED
  BY <1>7, <1>8

LEMMA AnswersWithin ==
    ASSUME NEW msgs, NEW n \in Nat, NEW k \in 0 .. n
    PROVE  Cardinality(Answers(msgs, k)) <= Cardinality(Answers(msgs, n))
<1>1. Answers(msgs, k) \subseteq Answers(msgs, n)
  BY DEF Answers
<1>2. IsFiniteSet(Answers(msgs, n))
  BY AnswersCounted
<1> QED
  BY <1>1, <1>2, FS_Subset

\* A message that waits behind the others.
LEMMA AnswersAppend ==
    ASSUME NEW msgs \in Seq(Message), NEW m \in Message
    PROVE  Cardinality(Answers(Append(msgs, m), Len(Append(msgs, m)))) =
             Cardinality(Answers(msgs, Len(msgs))) + (IF m.cmd = "ack" THEN 1 ELSE 0)
<1> DEFINE more == Append(msgs, m)
<1>1. Len(msgs) \in Nat /\ Len(more) = Len(msgs) + 1 /\ more[Len(msgs) + 1] = m
      /\ \A i \in 1 .. Len(msgs) : more[i] = msgs[i]
  OBVIOUS
<1> HIDE DEF more
<1>2. Answers(more, Len(msgs)) = Answers(msgs, Len(msgs))
  BY <1>1 DEF Answers
<1>3. Cardinality(Answers(more, Len(msgs) + 1)) =
        Cardinality(Answers(more, Len(msgs))) + (IF more[Len(msgs) + 1].cmd = "ack" THEN 1 ELSE 0)
  BY <1>1, AnswersCounted
<1> QED
  BY <1>1, <1>2, <1>3 DEF more

\* No more answers wait than there are requests unanswered.
Counted(d) == Waiting(d) <= Len(d.own)

LEMMA WaitingNat ==
    ASSUME NEW d \in Canvases
    PROVE  Waiting(d) \in Nat /\ Len(d.own) \in Nat /\ Len(d.deferred) \in Nat
<1>1. Len(d.own) \in Nat /\ Len(d.deferred) \in Nat
  BY CanvasParts, LenProperties
<1> QED
  BY <1>1, AnswersCounted DEF Waiting

\* Taking one message that was held.
LEMMA TakeHeldAround ==
    ASSUME NEW d \in Canvases, NEW msgs \in Seq(Message), NEW k \in 1 .. Len(msgs),
           msgs[k].cmd = "ack" => d.own # << >>
    PROVE  LET e == TakeHeld(d, msgs, k) IN
           /\ e \in Canvases /\ e.deferred = d.deferred /\ e.readOnly = d.readOnly
           /\ e.live \in {d.live, Idle} /\ (d.overtaken => e.overtaken)
           /\ Len(d.own) = Len(e.own) + (IF msgs[k].cmd = "ack" THEN 1 ELSE 0)
<1> DEFINE m == msgs[k]
           e == TakeHeld(d, msgs, k)
<1>0. m \in Message
  OBVIOUS
<1>1. Len(d.own) \in Nat
  BY WaitingNat
<1>2. CASE m.cmd = "ack"
  <2>1. e = ApplyAck(d, m)
    BY <1>2 DEF TakeHeld
  <2>2. Answer(d, ApplyAck(d, m))
    BY <1>0, <1>2, AckAnswers
  <2> HIDE DEF e
  <2> QED
    BY <1>2, <2>1, <2>2 DEF Answer, e
<1>3. CASE m.cmd = "change" /\ ~Outlived(msgs, k)
  <2>1. e = ApplyChange(d, m)
    BY <1>3 DEF TakeHeld
  <2>2. Around(d, ApplyChange(d, m)) /\ ApplyChange(d, m).live = d.live
    BY <1>0, <1>3, ChangeAround
  <2> QED
    BY <1>1, <1>3, <2>1, <2>2 DEF Around
<1>4. CASE m.cmd = "snapshot" /\ ~Outlived(msgs, k)
  <2>1. e = Load(d, m)
    BY <1>4 DEF TakeHeld
  <2>2. Around(d, Load(d, m)) /\ Load(d, m).live = Idle
    BY <1>0, <1>4, LoadAround
  <2> QED
    BY <1>1, <1>4, <2>1, <2>2 DEF Around
<1>5. CASE m.cmd # "ack" /\ ~(m.cmd = "change" /\ ~Outlived(msgs, k)) /\ ~(m.cmd = "snapshot" /\ ~Outlived(msgs, k))
  <2>1. e = d
    BY <1>5 DEF TakeHeld
  <2> QED
    BY <1>1, <1>5, <2>1
<1> QED
  BY <1>2, <1>3, <1>4, <1>5

\* After the first k of what was held.
Released(d, t, k) ==
    /\ t \in Canvases /\ t.deferred = << >> /\ t.readOnly = d.readOnly /\ t.live \in {d.live, Idle}
    /\ Len(d.own) = Len(t.own) + Cardinality(Answers(d.deferred, k))
    /\ d.overtaken => t.overtaken

LEMMA UnheldEach ==
    ASSUME NEW d \in Canvases, Counted(d), NEW last \in 0 .. Len(d.deferred)
    PROVE  Released(d, Unheld(d)[last], last)
<1> DEFINE msgs == d.deferred
           f == Unheld(d)
           T == {k \in Nat : k <= Len(msgs) => Released(d, f[k], k)}
<1>0. /\ msgs \in Seq(Message) /\ Len(msgs) \in Nat /\ Len(d.own) \in Nat
      /\ f[0] = [d EXCEPT !.deferred = << >>]
      /\ \A n \in 1 .. Len(msgs) : f[n] = TakeHeld(f[n - 1], msgs, n)
  BY CanvasParts, WaitingNat, UnheldStep
<1> HIDE DEF f
<1>1. 0 \in T
  <2>0. << >> \in Seq(Message)
    OBVIOUS
  <2>1. f[0] \in Canvases /\ f[0].deferred = << >> /\ f[0].readOnly = d.readOnly /\ f[0].live = d.live
        /\ f[0].own = d.own /\ f[0].overtaken = d.overtaken
    BY <1>0, <2>0 DEF Canvases
  <2>2. Cardinality(Answers(msgs, 0)) = 0
    BY AnswersCounted
  <2>3. Len(d.own) = Len(f[0].own) + Cardinality(Answers(msgs, 0))
    BY <1>0, <2>1, <2>2
  <2>4. Released(d, f[0], 0)
    BY <2>1, <2>3 DEF Released
  <2> QED
    BY <2>4
<1>2. ASSUME NEW k \in T
      PROVE  k + 1 \in T
  <2>1. SUFFICES ASSUME k + 1 <= Len(msgs) PROVE Released(d, f[k + 1], k + 1)
    OBVIOUS
  <2>2. k + 1 \in 1 .. Len(msgs) /\ (k + 1) - 1 = k /\ k <= Len(msgs) /\ k + 1 \in 0 .. Len(msgs) /\ k \in Nat
    BY <1>0, <2>1
  <2>3. Released(d, f[k], k) /\ f[k + 1] = TakeHeld(f[k], msgs, k + 1)
    BY <1>0, <2>2
  <2> DEFINE one == IF msgs[k + 1].cmd = "ack" THEN 1 ELSE 0
             before == Cardinality(Answers(msgs, k))
             after == Cardinality(Answers(msgs, k + 1))
             all == Cardinality(Answers(msgs, Len(msgs)))
  <2>4. before \in Nat /\ after = before + one
    BY <2>2, AnswersCounted
  <2>5. after <= all
    BY <1>0, <2>2, AnswersWithin
  <2>6. all <= Len(d.own) /\ all \in Nat
    BY <1>0, AnswersCounted DEF Counted, Waiting
  <2>7. f[k] \in Canvases /\ f[k].deferred = << >> /\ f[k].readOnly = d.readOnly /\ f[k].live \in {d.live, Idle}
        /\ Len(d.own) = Len(f[k].own) + before /\ (d.overtaken => f[k].overtaken)
    BY <2>3 DEF Released
  <2>8. Len(f[k].own) \in Nat
    BY <2>7, WaitingNat
  <2>9. ASSUME msgs[k + 1].cmd = "ack"
        PROVE  f[k].own # << >>
    <3>1. Len(f[k].own) # 0
      <4>1. one = 1
        BY <2>9
      <4> HIDE DEF one, before, after, all
      <4> QED
        BY <1>0, <2>4, <2>5, <2>6, <2>7, <2>8, <4>1
    <3> QED
      BY <3>1
  <2> DEFINE e == TakeHeld(f[k], msgs, k + 1)
  <2>10. /\ e \in Canvases /\ e.deferred = f[k].deferred /\ e.readOnly = f[k].readOnly
         /\ e.live \in {f[k].live, Idle} /\ (f[k].overtaken => e.overtaken)
         /\ Len(f[k].own) = Len(e.own) + one
    <3>1. PICK t, n : t = f[k] /\ n = k + 1
      OBVIOUS
    <3>2. t \in Canvases /\ n \in 1 .. Len(msgs) /\ (msgs[n].cmd = "ack" => t.own # << >>)
      BY <2>2, <2>7, <2>9, <3>1
    <3> DEFINE u == TakeHeld(t, msgs, n)
    <3>3. /\ u \in Canvases /\ u.deferred = t.deferred /\ u.readOnly = t.readOnly
          /\ u.live \in {t.live, Idle} /\ (t.overtaken => u.overtaken)
          /\ Len(t.own) = Len(u.own) + (IF msgs[n].cmd = "ack" THEN 1 ELSE 0)
      BY <1>0, <3>2, TakeHeldAround
    <3>4. u = e
      BY <3>1
    <3> HIDE DEF u, e
    <3> QED
      BY <3>1, <3>3, <3>4
  <2>11. Len(e.own) \in Nat
    BY <2>10, WaitingNat
  <2> HIDE DEF e
  <2>12. Len(d.own) = Len(e.own) + after
    <3>1. one \in Nat
      OBVIOUS
    <3> DEFINE x == Len(f[k].own)
               y == Len(e.own)
               z == Len(d.own)
    <3>2. z = x + before /\ x = y + one /\ after = before + one /\ before \in Nat /\ y \in Nat
      BY <2>4, <2>7, <2>10, <2>11
    <3> HIDE DEF one, before, after, x, y, z
    <3>3. z = y + after
      BY <3>1, <3>2
    <3> QED
      BY <3>3 DEF y, z
  <2> HIDE DEF msgs
  <2>13. f[k + 1] = e
    BY <2>3 DEF e
  <2>14. Len(d.own) = Len(e.own) + Cardinality(Answers(d.deferred, k + 1))
    BY <2>12 DEF msgs
  <2> QED
    BY <2>7, <2>10, <2>13, <2>14 DEF Released
<1>3. T = Nat
  <2> HIDE DEF T
  <2>1. T \subseteq Nat
    BY DEF T
  <2> QED
    BY <1>1, <1>2, <2>1, NatFromZero
<1>4. last \in T /\ last <= Len(msgs)
  BY <1>0, <1>3
<1> QED
  BY <1>4 DEF f

LEMMA UnheldReleases ==
    ASSUME NEW d \in Canvases, Counted(d)
    PROVE  LET e == Unheld(d)[Len(d.deferred)] IN
           /\ e \in Canvases /\ e.deferred = << >> /\ e.readOnly = d.readOnly
           /\ e.live \in {d.live, Idle} /\ Len(e.own) <= Len(d.own) /\ (d.overtaken => e.overtaken)
<1> DEFINE n == Len(d.deferred)
           e == Unheld(d)[n]
<1>1. n \in Nat /\ n \in 0 .. n
  BY WaitingNat
<1>2. Released(d, e, n)
  BY <1>1, UnheldEach
<1>3. Cardinality(Answers(d.deferred, n)) \in Nat
  BY <1>1, AnswersCounted
<1> HIDE DEF e, n
<1>4. Len(e.own) \in Nat
  BY <1>2, WaitingNat DEF Released
<1>5. Len(e.own) <= Len(d.own)
  BY <1>2, <1>3, <1>4 DEF Released
<1> QED
  BY <1>2, <1>5 DEF Released, e, n

-----------------------------------------------------------------------------
(* How a gesture ends                                                       *)

\* Answers are held only by a gesture, and no more of them than were asked for; a
\* locked canvas has no editing gesture.
Held(d)   == d.deferred # << >> => Gesturing(d)
Silent(d) == d.readOnly => d.live.name \notin Editing
Good(d)   == d \in Canvases /\ Held(d) /\ Counted(d) /\ Silent(d)

\* Nothing held, no gesture, and nothing more asked for.
Rests(d, e) ==
    /\ e \in Canvases /\ e.deferred = << >> /\ e.live = Idle
    /\ e.readOnly = d.readOnly /\ Len(e.own) <= Len(d.own)
    /\ d.overtaken => e.overtaken

LEMMA NoneHeldGood ==
    ASSUME NEW e \in Canvases, e.deferred = << >>, Silent(e)
    PROVE  Good(e)
<1>1. Len(e.deferred) = 0 /\ Len(e.own) \in Nat
  BY WaitingNat
<1>2. Waiting(e) = 0
  BY <1>1, AnswersCounted DEF Waiting
<1> QED
  BY <1>1, <1>2 DEF Good, Held, Counted

LEMMA IdleSilent ==
    ASSUME NEW e, e.live = Idle
    PROVE  Silent(e) /\ ~Gesturing(e)
  BY IdleLive DEF Silent, Gesturing

LEMMA AroundCounted ==
    ASSUME NEW d \in Canvases, NEW e, Around(d, e)
    PROVE  /\ e \in Canvases /\ Waiting(e) = Waiting(d) /\ Len(e.own) = Len(d.own)
           /\ Counted(d) => Counted(e)
  BY DEF Around, Waiting, Counted

LEMMA UndoGestureAround ==
    ASSUME NEW d \in Canvases, NEW g \in Live
    PROVE  Around(d, UndoGesture(d, g)) /\ UndoGesture(d, g).live = d.live
<1>0. d.model \in Doc /\ g.before \in Doc /\ g.of \in Entities
  BY CanvasParts DEF Live
<1>1. CASE g.name = "link"
  <2> DEFINE doc == [e \in Entities |-> IF e \in g.placed THEN Gone ELSE d.model[e]]
  <2>1. doc \in Doc
    BY <1>0 DEF Doc
  <2>2. UndoGesture(d, g) = Write(d, doc)
    BY <1>1 DEF UndoGesture, CleanupRoute
  <2> QED
    BY <2>1, <2>2, WriteAround
<1>2. CASE g.name = "handle" /\ d.model[g.of] # Gone
  <2> DEFINE doc == [d.model EXCEPT ![g.of] = g.before[g.of]]
  <2>1. doc \in Doc
    BY <1>0 DEF Doc
  <2>2. UndoGesture(d, g) = Write(d, doc)
    BY <1>2 DEF UndoGesture
  <2> QED
    BY <2>1, <2>2, WriteAround
<1>3. CASE g.name = "clone"
  <2>1. UndoGesture(d, g) = [d EXCEPT !.selection = {}]
    BY <1>3 DEF UndoGesture
  <2> QED
    BY <2>1, SelectionAround
<1>4. CASE g.name # "link" /\ ~(g.name = "handle" /\ d.model[g.of] # Gone) /\ g.name # "clone"
  <2>1. UndoGesture(d, g) = d
    BY <1>4 DEF UndoGesture
  <2> QED
    BY <2>1 DEF Around
<1> QED
  BY <1>1, <1>2, <1>3, <1>4

\* A canvas that no gesture holds is given all that waited.
LEMMA ReleaseRests ==
    ASSUME NEW d \in Canvases, Counted(d), ~Gesturing(d)
    PROVE  LET e == ReleaseDeferred(d) IN
           /\ e \in Canvases /\ e.deferred = << >> /\ e.readOnly = d.readOnly
           /\ e.live \in {d.live, Idle} /\ Len(e.own) <= Len(d.own) /\ (d.overtaken => e.overtaken)
<1>1. ReleaseDeferred(d) = Unheld(d)[Len(d.deferred)]
  BY DEF ReleaseDeferred
<1> QED
  BY <1>1, UnheldReleases

LEMMA CancelledRests ==
    ASSUME NEW d \in Canvases, Counted(d)
    PROVE  Rests(d, Cancelled(d))
<1> DEFINE undone == UndoGesture(d, d.live)
           idle == [undone EXCEPT !.live = Idle]
           clear == [idle EXCEPT !.preview = NoPreview]
<1>1. Around(d, undone)
  BY CanvasParts, UndoGestureAround
<1>2. undone \in Canvases
  BY <1>1 DEF Around
<1> HIDE DEF undone
<1>3. Around(undone, idle) /\ idle.live = Idle
  BY <1>2, LiveAround, IdleLive
<1>4. idle \in Canvases
  BY <1>3 DEF Around
<1> HIDE DEF idle
<1>5. Around(idle, clear) /\ clear.live = Idle
  BY <1>3, <1>4, PreviewAround, NoPreviewDoc
<1>6. Around(d, clear)
  BY <1>1, <1>3, <1>5 DEF Around
<1>7. Cancelled(d) = ReleaseDeferred(clear)
  BY DEF Cancelled, clear, idle, undone
<1> HIDE DEF clear
<1>8. clear \in Canvases /\ Counted(clear) /\ Len(clear.own) = Len(d.own) /\ ~Gesturing(clear)
      /\ clear.readOnly = d.readOnly /\ (d.overtaken => clear.overtaken)
  BY <1>5, <1>6, AroundCounted, IdleSilent DEF Around
<1>9. LET e == ReleaseDeferred(clear) IN
      /\ e \in Canvases /\ e.deferred = << >> /\ e.readOnly = clear.readOnly
      /\ e.live \in {clear.live, Idle} /\ Len(e.own) <= Len(clear.own) /\ (clear.overtaken => e.overtaken)
  BY <1>8, ReleaseRests
<1> QED
  BY <1>5, <1>7, <1>8, <1>9 DEF Rests

LEMMA CancelRests ==
    ASSUME NEW d \in Canvases, Held(d), Counted(d)
    PROVE  Rests(d, Cancel(d))
<1>1. CASE d.live = Idle
  <2>1. d.deferred = << >>
    BY <1>1, IdleSilent DEF Held
  <2>2. Len(d.own) <= Len(d.own)
    BY WaitingNat
  <2> QED
    BY <1>1, <2>1, <2>2 DEF Cancel, Rests
<1>2. CASE d.live # Idle
  BY <1>2, CancelledRests DEF Cancel
<1> QED
  BY <1>1, <1>2

\* However a gesture ends, what it leaves is good.
LEMMA FinishGood ==
    ASSUME NEW d, Good(d), NEW done \in Canvases, Counted(done), Silent(done), done.deferred = d.deferred
    PROVE  /\ Good(Finish(d, done)) /\ Finish(d, done).readOnly = done.readOnly
           /\ Len(Finish(d, done).own) <= Len(done.own)
           /\ done.overtaken => Finish(d, done).overtaken
<1> DEFINE clear == [done EXCEPT !.preview = NoPreview]
           ended == IF Gesturing(done) THEN done ELSE clear
<1>1. Around(done, clear) /\ clear.live = done.live
  BY PreviewAround, NoPreviewDoc
<1> HIDE DEF clear
<1>2. /\ ended \in Canvases /\ ended.own = done.own /\ ended.deferred = d.deferred
      /\ ended.readOnly = done.readOnly /\ ended.live = done.live /\ (done.overtaken => ended.overtaken)
  BY <1>1 DEF Around
<1>3. Finish(d, done) = IF Gesturing(d) THEN ReleaseDeferred(ended) ELSE ended
  BY DEF Finish, ended, clear
<1> HIDE DEF ended
<1>4. Counted(ended) /\ Silent(ended) /\ Len(ended.own) <= Len(done.own)
  <2>1. Len(done.own) \in Nat
    BY WaitingNat
  <2> QED
    BY <1>2, <2>1 DEF Counted, Silent, Waiting
<1>5. CASE ~Gesturing(d)
  <2>1. ended.deferred = << >>
    BY <1>2, <1>5 DEF Good, Held
  <2> QED
    BY <1>2, <1>3, <1>4, <1>5, <2>1, NoneHeldGood
<1>6. CASE Gesturing(d) /\ Gesturing(ended)
  <2>1. Finish(d, done) = ended
    BY <1>3, <1>6 DEF ReleaseDeferred
  <2> QED
    BY <1>2, <1>4, <1>6, <2>1 DEF Good, Held
<1>7. CASE Gesturing(d) /\ ~Gesturing(ended)
  <2> DEFINE e == ReleaseDeferred(ended)
  <2>1. /\ e \in Canvases /\ e.deferred = << >> /\ e.readOnly = ended.readOnly
        /\ e.live \in {ended.live, Idle} /\ Len(e.own) <= Len(ended.own) /\ (ended.overtaken => e.overtaken)
    BY <1>2, <1>4, <1>7, ReleaseRests
  <2>2. Finish(d, done) = e
    BY <1>3, <1>7
  <2> HIDE DEF e
  <2>3. Silent(e)
    BY <1>4, <2>1, IdleSilent DEF Silent
  <2>4. Good(e)
    BY <2>1, <2>3, NoneHeldGood
  <2>5. Len(e.own) <= Len(done.own)
    BY <1>2, <2>1
  <2> QED
    BY <1>2, <2>1, <2>2, <2>4, <2>5
<1> QED
  BY <1>5, <1>6, <1>7

\* Whatever the server sends: taken at once, or held by a gesture.
LEMMA HearGood ==
    ASSUME NEW d, Good(d), NEW m \in Message, m.cmd = "ack" => Waiting(d) < Len(d.own)
    PROVE  /\ Good(Hear(d, m)) /\ Hear(d, m).readOnly = d.readOnly
           /\ Len(Hear(d, m).own) <= Len(d.own)
           /\ d.overtaken => Hear(d, m).overtaken
<1>0. d \in Canvases /\ Held(d) /\ Counted(d) /\ Silent(d)
  BY DEF Good
<1>1. Len(d.own) \in Nat /\ Waiting(d) \in Nat /\ d.deferred \in Seq(Message)
  BY <1>0, WaitingNat, CanvasParts
<1> DEFINE waits == IF m.cmd = "ack" THEN d.deferred # << >> ELSE Gesturing(d)
           e == Hear(d, m)
<1>2. CASE waits
  <2>1. e = [d EXCEPT !.deferred = Append(@, m)]
    BY <1>2 DEF Hear
  <2>2. Append(d.deferred, m) \in Seq(Message)
    BY <1>1
  <2>3. e \in Canvases /\ e.live = d.live /\ e.own = d.own /\ e.readOnly = d.readOnly
        /\ e.deferred = Append(d.deferred, m) /\ e.overtaken = d.overtaken
    BY <1>0, <2>1, <2>2 DEF Canvases
  <2>4. Gesturing(d)
    BY <1>0, <1>2 DEF Held
  <2> HIDE DEF e
  <2>5. Waiting(e) = Waiting(d) + (IF m.cmd = "ack" THEN 1 ELSE 0)
    BY <1>1, <2>3, AnswersAppend DEF Waiting
  <2>6. Waiting(d) <= Len(d.own)
    BY <1>0 DEF Counted
  <2>7. Waiting(e) <= Len(e.own)
    BY <1>1, <2>3, <2>5, <2>6
  <2> QED
    BY <1>0, <1>1, <2>3, <2>4, <2>7 DEF Good, Held, Counted, Silent, Gesturing, e
<1>3. CASE ~waits
  <2>1. d.deferred = << >>
    BY <1>0, <1>3 DEF Held
  <2>2. CASE m.cmd = "ack"
    <3>1. d.own # << >>
      BY <1>1, <2>2
    <3>2. e = ApplyAck(d, m)
      BY <1>3, <2>2 DEF Hear
    <3>3. Answer(d, e)
      BY <1>0, <2>2, <3>1, <3>2, AckAnswers
    <3>4. /\ e \in Canvases /\ e.deferred = << >> /\ e.readOnly = d.readOnly /\ e.live = d.live
          /\ Len(e.own) + 1 = Len(d.own) /\ (d.overtaken => e.overtaken)
      BY <2>1, <3>3 DEF Answer
    <3>5. Len(e.own) \in Nat
      BY <3>4, WaitingNat
    <3> HIDE DEF e
    <3>6. Good(e)
      BY <1>0, <3>4, NoneHeldGood DEF Silent
    <3> QED
      BY <3>4, <3>5, <3>6 DEF e
  <2>3. CASE m.cmd = "change"
    <3>1. e = ApplyChange(d, m)
      BY <1>3, <2>3 DEF Hear
    <3>2. Around(d, e) /\ e.live = d.live
      BY <1>0, <2>3, <3>1, ChangeAround
    <3> HIDE DEF e
    <3>3. Good(e)
      BY <1>0, <2>1, <3>2, NoneHeldGood DEF Silent, Around
    <3> QED
      BY <1>1, <3>2, <3>3 DEF Around, e
  <2>4. CASE m.cmd = "snapshot"
    <3>1. e = Load(d, m)
      BY <1>3, <2>4 DEF Hear
    <3>2. Around(d, e) /\ e.live = Idle
      BY <1>0, <2>4, <3>1, LoadAround
    <3> HIDE DEF e
    <3>3. Good(e)
      BY <2>1, <3>2, NoneHeldGood, IdleSilent DEF Around
    <3> QED
      BY <1>1, <3>2, <3>3 DEF Around, e
  <2> QED
    BY <2>2, <2>3, <2>4, MessageParts
<1> QED
  BY <1>2, <1>3

-----------------------------------------------------------------------------
(* What a step may do                                                       *)

Moves(d, e) == Good(e) /\ (d.readOnly => Len(e.own) <= Len(d.own)) /\ (d.overtaken => e.overtaken)

LEMMA GoodLooks ==
    ASSUME NEW d, Good(d), NEW e, Around(d, e), Gesturing(d) => Gesturing(e), Silent(e)
    PROVE  Moves(d, e)
<1>1. Waiting(e) = Waiting(d) /\ Len(e.own) = Len(d.own) /\ e \in Canvases /\ e.deferred = d.deferred
      /\ Len(d.own) \in Nat /\ (d.overtaken => e.overtaken)
  BY AroundCounted, WaitingNat DEF Good, Around
<1> QED
  BY <1>1 DEF Good, Held, Counted, Moves

LEMMA GoodKeepsLive ==
    ASSUME NEW d, Good(d), NEW e, Around(d, e), e.live = d.live
    PROVE  Moves(d, e)
<1>1. (Gesturing(d) => Gesturing(e)) /\ Silent(e)
  BY DEF Gesturing, Silent, Good, Around
<1> QED
  BY <1>1, GoodLooks

LEMMA GoodAsks ==
    ASSUME NEW d, Good(d), ~d.readOnly, NEW e, Asked(d, e)
    PROVE  Good(e) /\ ~e.readOnly
<1>1. Waiting(e) = Waiting(d) /\ Len(e.own) = Len(d.own) + 1 /\ e \in Canvases /\ Waiting(d) \in Nat /\ Len(d.own) \in Nat
  BY WaitingNat DEF Good, Asked, Waiting
<1>2. Waiting(d) <= Len(d.own)
  BY DEF Good, Counted
<1>3. Counted(e)
  BY <1>1, <1>2 DEF Counted
<1> QED
  BY <1>1, <1>3 DEF Good, Held, Silent, Gesturing, Asked

LEMMA FreeMoves ==
    ASSUME NEW d, ~d.readOnly, NEW e, Good(e), d.overtaken => e.overtaken
    PROVE  Moves(d, e)
  BY DEF Moves

\* What a release leaves before it tells Sync that the gesture ended.
Closes(d, e) ==
    /\ e \in Canvases /\ e.deferred = d.deferred /\ e.readOnly = d.readOnly
    /\ Counted(e) /\ Silent(e)
    /\ d.readOnly => Len(e.own) <= Len(d.own)
    /\ d.overtaken => e.overtaken

LEMMA FinishMoves ==
    ASSUME NEW d, Good(d), NEW e, Closes(d, e)
    PROVE  Moves(d, Finish(d, e))
<1> DEFINE f == Finish(d, e)
<1>1. Good(f) /\ f.readOnly = e.readOnly /\ Len(f.own) <= Len(e.own) /\ (e.overtaken => f.overtaken)
  BY FinishGood DEF Closes
<1>2. f \in Canvases /\ d \in Canvases /\ e \in Canvases
  BY <1>1 DEF Good, Closes
<1>3. Len(f.own) \in Nat /\ Len(d.own) \in Nat /\ Len(e.own) \in Nat
  BY <1>2, WaitingNat
<1> HIDE DEF f
<1>4. d.readOnly => Len(f.own) <= Len(d.own)
  BY <1>1, <1>3 DEF Closes
<1> QED
  BY <1>1, <1>4 DEF Moves, Closes, f

LEMMA ClosesLooks ==
    ASSUME NEW d, NEW e, Closes(d, e), NEW f, Around(e, f), Silent(f)
    PROVE  Closes(d, f)
<1>1. e \in Canvases /\ Counted(e)
  BY DEF Closes
<1>2. f \in Canvases /\ Counted(f) /\ Len(f.own) = Len(e.own)
  BY <1>1, AroundCounted
<1> QED
  BY <1>2 DEF Closes, Around

LEMMA ClosesKeepsLive ==
    ASSUME NEW d, NEW e, Closes(d, e), NEW f, Around(e, f), f.live = e.live
    PROVE  Closes(d, f)
<1>1. Silent(f)
  BY DEF Closes, Silent, Around
<1> QED
  BY <1>1, ClosesLooks

LEMMA ClosesAsks ==
    ASSUME NEW d, NEW e, Closes(d, e), ~d.readOnly, NEW f, Asked(e, f)
    PROVE  Closes(d, f)
<1>1. Waiting(f) = Waiting(e) /\ Len(f.own) = Len(e.own) + 1 /\ f \in Canvases
      /\ Waiting(e) \in Nat /\ Len(e.own) \in Nat /\ Waiting(e) <= Len(e.own)
  BY WaitingNat DEF Closes, Asked, Waiting, Counted
<1>2. Counted(f)
  BY <1>1 DEF Counted
<1> QED
  BY <1>1, <1>2 DEF Closes, Silent, Asked

LEMMA EndedCloses ==
    ASSUME Good(c)
    PROVE  /\ Closes(c, Ended) /\ Ended \in Canvases /\ Ended.live = Idle
           /\ Ended.model = c.model /\ Ended.selection = c.selection
<1>1. c \in Canvases /\ Counted(c)
  BY DEF Good
<1>2. /\ Around(c, Ended) /\ Ended.live = Idle /\ Ended.model = c.model /\ Ended.selection = c.selection
  BY <1>1, LiveAround, IdleLive DEF Ended
<1>3. Silent(Ended) /\ Counted(Ended) /\ Len(Ended.own) <= Len(c.own)
  BY <1>1, <1>2, IdleSilent, AroundCounted, WaitingNat
<1> QED
  BY <1>2, <1>3 DEF Closes, Around

\* A gesture that begins ends the one there was.
LEMMA BegunGood ==
    ASSUME Good(c), NEW g \in Live, c.readOnly => g.name \notin Editing
    PROVE  /\ Moves(c, Begun(g)) /\ Begun(g).live = g /\ Good(Begun(g)) /\ Begun(g) \in Canvases
           /\ Begun(g).readOnly = c.readOnly
<1> DEFINE idle == Cancel(c)
           e == [idle EXCEPT !.live = g]
<1>1. Rests(c, idle)
  BY CancelRests DEF Good
<1> HIDE DEF idle
<1>2. idle \in Canvases
  BY <1>1 DEF Rests
<1>3. Around(idle, e) /\ e.live = g
  BY <1>2, LiveAround
<1>4. Begun(g) = e
  BY DEF Begun, idle
<1> HIDE DEF e
<1>5. /\ e \in Canvases /\ e.deferred = << >> /\ e.readOnly = c.readOnly /\ Len(e.own) <= Len(c.own)
      /\ c.overtaken => e.overtaken
  BY <1>1, <1>3 DEF Rests, Around
<1>6. Good(e)
  BY <1>3, <1>5, NoneHeldGood DEF Silent
<1> QED
  BY <1>3, <1>4, <1>5, <1>6 DEF Moves

-----------------------------------------------------------------------------
(* Presses                                                                  *)

LEMMA PressLinkMoves ==
    ASSUME Good(c), NEW e \in Entities, PressLink(e)
    PROVE  Moves(c, c')
<1>1. c' = Begun(Gesture("link", e)) /\ ~c.readOnly
  BY DEF PressLink, Looks
<1>2. Gesture("link", e) \in Live
  BY GestureLive DEF Editing
<1> QED
  BY <1>1, <1>2, BegunGood

LEMMA PressHandleMoves ==
    ASSUME Good(c), NEW e \in Entities, PressHandle(e)
    PROVE  Moves(c, c')
<1> DEFINE g == [Gesture("handle", e) EXCEPT !.before = c.model]
<1>1. c' = Begun(g) /\ ~c.readOnly
  BY DEF PressHandle, Looks
<1>2. Gesture("handle", e) \in Live /\ c.model \in Doc
  BY GestureLive, CanvasParts DEF Editing, Good
<1>3. g \in Live
  BY <1>2 DEF Live
<1> HIDE DEF g
<1> QED
  BY <1>1, <1>3, BegunGood

LEMMA PressGroundMoves ==
    ASSUME Good(c), NEW shift \in BOOLEAN, PressGround(shift)
    PROVE  Moves(c, c')
<1> DEFINE name == IF shift /\ ~c.readOnly THEN "box" ELSE "marquee"
           g == Gesture(name, Device)
<1>1. c' = Begun(g)
  BY DEF PressGround, Looks
<1>2. name \in Editing \cup Engaged \cup {"none", "pending"} /\ (c.readOnly => name \notin Editing)
  BY DEF Editing, Engaged
<1> HIDE DEF name
<1>3. g \in Live /\ g.name = name
  BY <1>2, EntitiesKnown, GestureLive
<1> HIDE DEF g
<1> QED
  BY <1>1, <1>2, <1>3, BegunGood

LEMMA PressSelectsMoves ==
    ASSUME Good(c), NEW e \in Entities, NEW shift \in BOOLEAN, PressSelects(e, shift)
    PROVE  Moves(c, c')
<1> DEFINE g == Gesture("pending", e)
           d == Begun(g)
<1>1. g \in Live /\ g.name = "pending" /\ "pending" \notin Editing
  BY GestureLive DEF Editing
<1>2. Moves(c, d) /\ Good(d) /\ d \in Canvases /\ d.readOnly = c.readOnly
  <2> HIDE DEF g
  <2> QED
    BY <1>1, BegunGood
<1>3. PICK picked : c' = [d EXCEPT !.selection = Alive(d.model) \cap picked]
  BY DEF PressSelects, Looks
<1> HIDE DEF d
<1>4. Alive(d.model) \cap picked \in SUBSET Entities
  BY DEF Alive
<1>5. Around(d, c') /\ c'.live = d.live
  BY <1>2, <1>3, <1>4, SelectionAround
<1>6. Moves(d, c')
  BY <1>2, <1>5, GoodKeepsLive
<1>7. Len(c'.own) = Len(d.own)
  BY <1>5 DEF Around
<1> QED
  BY <1>2, <1>6, <1>7 DEF Moves

LEMMA PressClonesMoves ==
    ASSUME Good(c), NEW e \in Entities, NEW shift \in BOOLEAN, PressClones(e, shift)
    PROVE  Moves(c, c')
<1>1. c' = Begun(Gesture("clone-pending", e)) /\ ~c.readOnly
  BY DEF PressClones, Looks
<1>2. Gesture("clone-pending", e) \in Live
  BY GestureLive DEF Editing
<1> QED
  BY <1>1, <1>2, BegunGood

LEMMA PressDeletesMoves ==
    ASSUME Good(c), NEW e \in Entities, NEW shift \in BOOLEAN, PressDeletes(e, shift)
    PROVE  Moves(c, c')
<1> DEFINE d == Begun(Idle)
           ops == Each({e}, Gone)
<1>1. c' = CommitDrawn(d, ops, FALSE) /\ ~c.readOnly
  BY DEF PressDeletes, Commit
<1>2. Good(d) /\ d \in Canvases /\ d.readOnly = c.readOnly /\ Moves(c, d)
  BY IdleLive, BegunGood
<1>3. ops \in Ops
  BY EachOps
<1> HIDE DEF d, ops
<1>4. Asked(d, c')
  BY <1>1, <1>2, <1>3, CommitAsks
<1>5. Good(c') /\ (c.overtaken => c'.overtaken)
  BY <1>1, <1>2, <1>4, GoodAsks DEF Moves, Asked
<1> QED
  BY <1>1, <1>5, FreeMoves

LEMMA DoubleMoves ==
    ASSUME Good(c), NEW e \in Entities, NEW shift \in BOOLEAN, Double(e, shift)
    PROVE  Moves(c, c')
<1> DEFINE d == Cancel(c)
<1>1. c' = [d EXCEPT !.selection = {e} \cap Alive(d.model)] /\ ~c.readOnly
  BY DEF Double, Looks
<1>2. Rests(c, d)
  BY CancelRests DEF Good
<1> HIDE DEF d
<1>3. d \in Canvases /\ Good(d)
  BY <1>2, NoneHeldGood, IdleSilent DEF Rests
<1>4. {e} \cap Alive(d.model) \in SUBSET Entities
  OBVIOUS
<1>5. Around(d, c') /\ c'.live = d.live
  BY <1>1, <1>3, <1>4, SelectionAround
<1>6. Moves(d, c')
  BY <1>3, <1>5, GoodKeepsLive
<1> QED
  BY <1>1, <1>2, <1>6 DEF Moves, Rests

LEMMA PressInChainMoves ==
    ASSUME Good(c), PressInChain
    PROVE  Moves(c, c')
<1> DEFINE g == [c.live EXCEPT !.chained = FALSE]
<1>1. c \in Canvases /\ c.live \in Live
  BY CanvasParts DEF Good
<1>2. g \in Live /\ g.name = c.live.name
  BY <1>1 DEF Live
<1>3. c' = [c EXCEPT !.live = g]
  BY <1>1 DEF PressInChain, Looks, Canvases
<1> HIDE DEF g
<1>4. Around(c, c') /\ c'.live = g
  BY <1>1, <1>2, <1>3, LiveAround
<1>5. (Gesturing(c) => Gesturing(c')) /\ Silent(c')
  BY <1>2, <1>4 DEF Gesturing, Silent, Good, Around
<1> QED
  BY <1>4, <1>5, GoodLooks

-----------------------------------------------------------------------------
(* Drags                                                                    *)

LEMMA StartMoveMoves ==
    ASSUME Good(c), StartMove
    PROVE  Moves(c, c')
<1> DEFINE moved == c.selection \cap Alive(c.model)
           g == IF moved = {} THEN Idle ELSE [c.live EXCEPT !.name = "move", !.moved = moved, !.before = c.model]
           shown == IF moved = {} THEN c.preview ELSE c.model
           d == [c EXCEPT !.live = g]
<1>1. c \in Canvases /\ c.live \in Live /\ c.model \in Doc /\ c.preview \in Doc /\ c.live.name = "pending" /\ ~c.readOnly
  BY CanvasParts DEF Good, StartMove
<1>2. moved \in SUBSET Entities
  BY DEF Alive
<1>3. g \in Live
  BY <1>1, <1>2, IdleLive DEF Live, Editing
<1>4. shown \in Doc
  BY <1>1
<1>5. c' = [d EXCEPT !.preview = shown]
  BY <1>1 DEF StartMove, Looks, Canvases
<1> HIDE DEF g, shown
<1>6. Around(c, d)
  BY <1>1, <1>3, LiveAround
<1> HIDE DEF d
<1>7. d \in Canvases
  BY <1>6 DEF Around
<1>8. Around(d, c')
  BY <1>4, <1>5, <1>7, PreviewAround
<1>9. Around(c, c') /\ Silent(c') /\ ~Gesturing(c)
  BY <1>1, <1>6, <1>8 DEF Around, Silent, Gesturing, Engaged
<1> QED
  BY <1>9, GoodLooks

LEMMA StartCloneMoves ==
    ASSUME Good(c), StartClone
    PROVE  Moves(c, c')
<1>1. c \in Canvases /\ c.live \in Live /\ c.model \in Doc /\ c.live.name = "clone-pending" /\ ~c.readOnly
      /\ c.live.of \in Entities /\ c.selection \in SUBSET Entities
  BY CanvasParts DEF Good, StartClone, Live
<1> DEFINE picked == IF c.live.of \in c.selection THEN c.selection ELSE {c.live.of}
<1>2. ~Gesturing(c)
  BY <1>1 DEF Gesturing, Engaged
<1>3. CASE c' = [c EXCEPT !.live = Idle]
  <2>1. Around(c, c')
    BY <1>1, <1>3, IdleLive, LiveAround
  <2> QED
    BY <1>1, <1>2, <2>1, GoodLooks DEF Silent, Around
<1>4. CASE \E copies \in SUBSET Unused :
             c' = [c EXCEPT !.selection = picked,
                       !.live    = [@ EXCEPT !.name = "clone", !.moved = copies],
                       !.preview = Atop(Each(copies, c.model[c.live.of]), c.model)]
  <2>1. PICK copies \in SUBSET Unused :
             c' = [c EXCEPT !.selection = picked,
                       !.live    = [@ EXCEPT !.name = "clone", !.moved = copies],
                       !.preview = Atop(Each(copies, c.model[c.live.of]), c.model)]
    BY <1>4
  <2> DEFINE g == [c.live EXCEPT !.name = "clone", !.moved = copies]
             shown == Atop(Each(copies, c.model[c.live.of]), c.model)
  <2>2. copies \in SUBSET Entities
    BY <2>1, EntitiesKnown DEF Unused
  <2>3. g \in Live
    BY <1>1, <2>2 DEF Live, Editing
  <2>4. c.model[c.live.of] \in Places \cup {Gone}
    BY <1>1 DEF Doc
  <2>5. shown \in Doc
    BY <1>1, <2>2, <2>4, EachOps, JoinedDoc
  <2>6. picked \in SUBSET Entities
    BY <1>1
  <2>7. c' = [c EXCEPT !.selection = picked, !.live = g, !.preview = shown]
    BY <1>1, <2>1 DEF Canvases
  <2> HIDE DEF g, shown, picked
  <2>8. Around(c, c')
    BY <1>1, <2>3, <2>5, <2>6, <2>7 DEF Around, Canvases
  <2> QED
    BY <1>1, <1>2, <2>8, GoodLooks DEF Silent, Around
<1> QED
  BY <1>3, <1>4 DEF StartClone, Looks

LEMMA DragMoves ==
    ASSUME Good(c), NEW v \in Places, Drag(v)
    PROVE  Moves(c, c')
<1> DEFINE shown == Atop(Each(c.live.moved, v), c.preview)
<1>1. c \in Canvases /\ c.preview \in Doc /\ c.live \in Live
  BY CanvasParts DEF Good
<1>2. c.live.moved \in SUBSET Entities
  BY <1>1 DEF Live
<1>3. shown \in Doc
  BY <1>1, <1>2, EachOps, JoinedDoc
<1>4. c' = [c EXCEPT !.preview = shown]
  BY <1>1 DEF Drag, Looks, Canvases
<1> HIDE DEF shown
<1>5. Around(c, c') /\ c'.live = c.live
  BY <1>1, <1>3, <1>4, PreviewAround
<1> QED
  BY <1>5, GoodKeepsLive

LEMMA DragHandleMoves ==
    ASSUME Good(c), NEW v \in Places, DragHandle(v)
    PROVE  Moves(c, c')
<1> DEFINE doc == [c.model EXCEPT ![c.live.of] = v]
<1>1. c \in Canvases /\ c.model \in Doc
  BY CanvasParts DEF Good
<1>2. doc \in Doc
  BY <1>1 DEF Doc
<1>3. c' = [c EXCEPT !.model = doc]
  BY <1>1 DEF DragHandle, Looks, Canvases
<1> HIDE DEF doc
<1>4. Around(c, c') /\ c'.live = c.live
  BY <1>1, <1>2, <1>3 DEF Around, Canvases
<1> QED
  BY <1>4, GoodKeepsLive

\* The stop is one that is there, or a new one that the drag places.
LEMMA AddStopShape ==
    ASSUME c \in Canvases, NEW w \in Waypoints, AddStop(w)
    PROVE  LET g   == [c.live EXCEPT !.via = TRUE]
               h   == [g EXCEPT !.placed = @ \cup {w}]
               doc == [c.model EXCEPT ![w] = Min(Places)]
           IN  \/ (w \in Alive(c.model) /\ c' = [c EXCEPT !.live = g])
               \/ (w \in Unused /\ c' = [c EXCEPT !.live = h, !.model = doc])
<1> DEFINE g == [c.live EXCEPT !.via = TRUE]
           h == [g EXCEPT !.placed = @ \cup {w}]
           doc == [c.model EXCEPT ![w] = Min(Places)]
<1>1. c \in Canvases /\ c.model \in Doc /\ c.live \in Live /\ c.live.placed \in SUBSET Waypoints
  BY CanvasParts DEF Live
<1>2. g \in Live /\ h \in Live
  BY <1>1 DEF Live
<1> DEFINE d == [c EXCEPT !.live.via = TRUE]
           e == [d EXCEPT !.live.placed = @ \cup {w}, !.model[w] = Min(Places)]
<1>3. (w \in Alive(c.model) /\ c' = d) \/ (w \in Unused /\ c' = e)
  <2>1. w \in Alive(c.model) \cup Unused /\ c' = IF w \in Alive(c.model) THEN d ELSE e
    BY DEF AddStop, Looks
  <2> HIDE DEF d, e
  <2> QED
    BY <2>1
<1>4. d = [c EXCEPT !.live = g]
  BY <1>1 DEF Canvases
<1>5. d \in Canvases /\ d.live = g /\ d.model = c.model
  <2> HIDE DEF g
  <2> QED
    BY <1>1, <1>2, <1>4 DEF Canvases
<1>6. [d EXCEPT !.live.placed = @ \cup {w}] = [d EXCEPT !.live = h]
  <2> HIDE DEF d, g
  <2> QED
    BY <1>5 DEF Canvases
<1>7. e = [c EXCEPT !.live = h, !.model = doc]
  <2> DEFINE p == [d EXCEPT !.live.placed = @ \cup {w}]
  <2>1. e = [p EXCEPT !.model[w] = Min(Places)]
    OBVIOUS
  <2>2. p = [c EXCEPT !.live = h]
    <3> HIDE DEF g, h
    <3> QED
      BY <1>1, <1>4, <1>6 DEF Canvases
  <2> HIDE DEF h, p, e
  <2> QED
    BY <1>1, <2>1, <2>2 DEF Canvases
<1> HIDE DEF d, e
<1> QED
  BY <1>3, <1>4, <1>7

LEMMA AddStopMoves ==
    ASSUME Good(c), NEW w \in Waypoints, AddStop(w)
    PROVE  Moves(c, c')
<1>1. c \in Canvases /\ c.model \in Doc /\ c.live \in Live /\ c.live.placed \in SUBSET Waypoints
  BY CanvasParts DEF Good, Live
<1> DEFINE g == [c.live EXCEPT !.via = TRUE]
           h == [g EXCEPT !.placed = @ \cup {w}]
           doc == [c.model EXCEPT ![w] = Min(Places)]
<1>2. g \in Live /\ g.name = c.live.name /\ h \in Live /\ h.name = c.live.name
  BY <1>1 DEF Live
<1>3. doc \in Doc
  BY <1>1, LowestPlace, EntitiesKnown DEF Doc
<1>4. \/ c' = [c EXCEPT !.live = g]
      \/ c' = [c EXCEPT !.live = h, !.model = doc]
  BY <1>1, AddStopShape
<1> HIDE DEF g, h, doc
<1>5. Around(c, c') /\ c'.live \in {g, h}
  BY <1>1, <1>2, <1>3, <1>4 DEF Around, Canvases
<1>6. (Gesturing(c) => Gesturing(c')) /\ Silent(c')
  BY <1>2, <1>5 DEF Gesturing, Silent, Good, Around
<1> QED
  BY <1>5, <1>6, GoodLooks

LEMMA LinkFromLive ==
    ASSUME NEW e \in Entities
    PROVE  LinkFrom(e) \in Live /\ LinkFrom(e).name = "link" /\ "link" \in Editing /\ "link" \in Engaged
<1>1. Gesture("link", e) \in Live /\ Gesture("link", e).name = "link"
  BY GestureLive DEF Editing
<1> QED
  BY <1>1 DEF LinkFrom, Live, Editing, Engaged

LEMMA ChainThroughNodeMoves ==
    ASSUME Good(c), NEW w \in Waypoints, ChainThroughNode(w)
    PROVE  Moves(c, c')
<1>1. c \in Canvases /\ c.model \in Doc /\ c.live \in Live /\ c.live.placed \in SUBSET Waypoints
      /\ c.live.name = "link" /\ ~c.readOnly
  BY CanvasParts DEF Good, Live, ChainThroughNode, Drawing
<1> DEFINE doc == [c.model EXCEPT ![w] = Min(Places)]
           hop == c.live.placed \cup {w}
           live == [c EXCEPT !.model = doc]
           ops == Restrict(live.model, hop)
<1>2. doc \in Doc
  BY <1>1, LowestPlace, EntitiesKnown DEF Doc
<1>3. hop \in SUBSET Entities /\ w \in Entities
  BY <1>1, EntitiesKnown
<1>4. [c EXCEPT !.model[w] = Min(Places)] = live
  BY <1>1 DEF Canvases
<1>5. PICK refused \in BOOLEAN : c' = [CommitDrawn(live, ops, refused) EXCEPT !.live = LinkFrom(w)]
  BY <1>4 DEF ChainThroughNode
<1>6. Around(c, live) /\ live.live = c.live /\ live.model = doc
  BY <1>1, <1>2 DEF Around, Canvases
<1>7. ops \in Ops
  BY <1>2, <1>3, <1>6, RestrictedDoc
<1> DEFINE sent == CommitDrawn(live, ops, refused)
<1> HIDE DEF live, ops, hop, doc
<1>8. Good(live) /\ live \in Canvases /\ ~live.readOnly
  BY <1>1, <1>6, GoodKeepsLive DEF Moves, Around
<1>9. Asked(live, sent)
  BY <1>7, <1>8, CommitAsks
<1>10. Good(sent) /\ ~sent.readOnly /\ sent \in Canvases
  BY <1>8, <1>9, GoodAsks DEF Good
<1> HIDE DEF sent
<1>11. c' = [sent EXCEPT !.live = LinkFrom(w)]
  BY <1>5 DEF sent
<1>12. Around(sent, c') /\ c'.live = LinkFrom(w)
  BY <1>3, <1>10, <1>11, LinkFromLive, LiveAround
<1>13. Gesturing(c') /\ Silent(c')
  BY <1>3, <1>10, <1>12, LinkFromLive DEF Gesturing, Silent, Around
<1>14. Moves(sent, c')
  BY <1>10, <1>12, <1>13, GoodLooks
<1> QED
  BY <1>1, <1>6, <1>9, <1>14 DEF Moves, Around, Asked

-----------------------------------------------------------------------------
(* Releases                                                                 *)

LEMMA EditsUnlocked ==
    ASSUME Good(c), c.live.name \in Editing
    PROVE  ~c.readOnly
  BY DEF Good, Silent

\* A commit on the way out of a gesture.
LEMMA ClosesCommit ==
    ASSUME NEW d, Closes(c, d), ~c.readOnly, NEW ops \in Ops, NEW refused \in BOOLEAN
    PROVE  Closes(c, CommitDrawn(d, ops, refused)) /\ CommitDrawn(d, ops, refused) \in Canvases
<1>1. d \in Canvases
  BY DEF Closes
<1>2. Asked(d, CommitDrawn(d, ops, refused))
  BY <1>1, CommitAsks
<1> QED
  BY <1>2, ClosesAsks DEF Asked

LEMMA ClosesSelects ==
    ASSUME NEW d, Closes(c, d), NEW picked \in SUBSET Entities
    PROVE  Closes(c, [d EXCEPT !.selection = picked])
<1>1. d \in Canvases
  BY DEF Closes
<1>2. Around(d, [d EXCEPT !.selection = picked]) /\ [d EXCEPT !.selection = picked].live = d.live
  BY <1>1, SelectionAround
<1> QED
  BY <1>2, ClosesKeepsLive

LEMMA DoneMoves ==
    ASSUME Good(c), NEW d, Closes(c, d), Done(d)
    PROVE  Moves(c, c')
<1>1. c' = Finish(c, d)
  BY DEF Done
<1> QED
  BY <1>1, FinishMoves

LEMMA ReleaseMoveMoves ==
    ASSUME Good(c), ReleaseMove
    PROVE  Moves(c, c')
<1> DEFINE left == c.live.moved \cap Alive(c.model)
           ops == Restrict(c.preview, left)
<1>1. Done(Ended) \/ Done(Commit(Ended, ops))
  BY DEF ReleaseMove
<1>2. ~c.readOnly
  BY EditsUnlocked DEF ReleaseMove, Editing
<1>3. c.preview \in Doc /\ left \in SUBSET Entities
  BY CanvasParts DEF Good, Alive
<1>4. ops \in Ops
  BY <1>3, RestrictedDoc
<1> HIDE DEF ops
<1>5. Closes(c, Ended)
  BY EndedCloses
<1>6. Closes(c, Commit(Ended, ops))
  BY <1>2, <1>4, <1>5, ClosesCommit DEF Commit
<1> QED
  BY <1>1, <1>5, <1>6, DoneMoves

LEMMA ReleaseCloneMoves ==
    ASSUME Good(c), ReleaseClone
    PROVE  Moves(c, c')
<1> DEFINE ops == Restrict(c.preview, c.live.moved)
           d == Commit(Ended, ops)
           picked == c.live.moved \cap Alive(d.model)
<1>1. Done([d EXCEPT !.selection = picked])
  BY DEF ReleaseClone
<1>2. ~c.readOnly
  BY EditsUnlocked DEF ReleaseClone, Editing
<1>3. c.preview \in Doc /\ c.live.moved \in SUBSET Entities
  BY CanvasParts DEF Good, Live
<1>4. ops \in Ops /\ picked \in SUBSET Entities
  BY <1>3, RestrictedDoc
<1> HIDE DEF ops, picked
<1>5. Closes(c, d)
  BY <1>2, <1>4, EndedCloses, ClosesCommit DEF Commit
<1> HIDE DEF d
<1>6. Closes(c, [d EXCEPT !.selection = picked])
  BY <1>4, <1>5, ClosesSelects
<1> QED
  BY <1>1, <1>6, DoneMoves

LEMMA ReleaseHandleMoves ==
    ASSUME Good(c), NEW v \in Places, ReleaseHandle(v)
    PROVE  Moves(c, c')
<1> DEFINE rewound == UndoGesture(Ended, c.live)
           ops == Each({c.live.of}, v)
<1>1. Done(rewound) \/ Done(Commit(rewound, ops))
  BY DEF ReleaseHandle
<1>2. ~c.readOnly
  BY EditsUnlocked DEF ReleaseHandle, Editing
<1>3. c.live \in Live /\ c.live.of \in Entities
  BY CanvasParts DEF Good, Live
<1>4. ops \in Ops
  BY <1>3, EachOps
<1>5. Closes(c, Ended) /\ Ended \in Canvases
  BY EndedCloses
<1>6. Around(Ended, rewound) /\ rewound.live = Ended.live
  BY <1>3, <1>5, UndoGestureAround
<1> HIDE DEF ops, rewound
<1>7. Closes(c, rewound)
  BY <1>5, <1>6, ClosesKeepsLive
<1>8. Closes(c, Commit(rewound, ops))
  BY <1>2, <1>4, <1>7, ClosesCommit DEF Commit
<1> QED
  BY <1>1, <1>7, <1>8, DoneMoves

LEMMA ReleaseBoxMoves ==
    ASSUME Good(c), NEW area \in BOOLEAN, ReleaseBox(area)
    PROVE  Moves(c, c')
<1> DEFINE ops == Each({Drawn}, Min(Places))
           d == Commit(Ended, ops)
           picked == {Drawn} \cap Alive(d.model)
<1>1. Done(Ended) \/ Done([d EXCEPT !.selection = picked])
  BY DEF ReleaseBox
<1>2. ~c.readOnly
  BY EditsUnlocked DEF ReleaseBox, Editing
<1>3. ops \in Ops /\ picked \in SUBSET Entities
  BY EachOps, LowestPlace, EntitiesKnown
<1> HIDE DEF ops, picked
<1>4. Closes(c, Ended)
  BY EndedCloses
<1>5. Closes(c, d)
  BY <1>2, <1>3, <1>4, ClosesCommit DEF Commit
<1> HIDE DEF d
<1>6. Closes(c, [d EXCEPT !.selection = picked])
  BY <1>3, <1>5, ClosesSelects
<1> QED
  BY <1>1, <1>4, <1>6, DoneMoves

LEMMA ReleaseMarqueeMoves ==
    ASSUME Good(c), NEW shift \in BOOLEAN, ReleaseMarquee(shift)
    PROVE  Moves(c, c')
<1>1. PICK picked \in SUBSET (Alive(c.model) \ Zones) :
          Done([Ended EXCEPT !.selection = IF shift THEN @ \cup picked ELSE picked])
  BY DEF ReleaseMarquee
<1> DEFINE all == IF shift THEN Ended.selection \cup picked ELSE picked
<1>2. Closes(c, Ended) /\ Ended.selection = c.selection /\ Ended \in Canvases
  BY EndedCloses
<1>3. all \in SUBSET Entities
  BY <1>2, CanvasParts DEF Alive
<1>4. Done([Ended EXCEPT !.selection = all])
  BY <1>1, <1>2 DEF Canvases
<1> HIDE DEF all
<1>5. Closes(c, [Ended EXCEPT !.selection = all])
  BY <1>2, <1>3, ClosesSelects
<1> QED
  BY <1>4, <1>5, DoneMoves

LEMMA StampClickedMoves ==
    ASSUME Good(c), NEW w \in Waypoints, StampClicked(w)
    PROVE  Moves(c, c')
<1> DEFINE ops == Each({w}, Min(Places))
           d == Commit(Ended, ops)
           picked == {w} \cap Alive(d.model)
<1>1. Done([d EXCEPT !.selection = picked]) /\ ~c.readOnly
  BY DEF StampClicked
<1>2. ops \in Ops /\ picked \in SUBSET Entities
  BY EachOps, LowestPlace, EntitiesKnown
<1> HIDE DEF ops, picked
<1>3. Closes(c, d)
  BY <1>1, <1>2, EndedCloses, ClosesCommit DEF Commit
<1> HIDE DEF d
<1>4. Closes(c, [d EXCEPT !.selection = picked])
  BY <1>2, <1>3, ClosesSelects
<1> QED
  BY <1>1, <1>4, DoneMoves

LEMMA ReleasePressMoves ==
    ASSUME Good(c), ReleasePress
    PROVE  Moves(c, c')
<1> DEFINE picked == SymDiff(Ended.selection, {c.live.of})
<1>1. Closes(c, Ended) /\ Ended.selection = c.selection /\ Ended \in Canvases
  BY EndedCloses
<1>2. Done(Ended) \/ Done([Ended EXCEPT !.selection = picked])
  BY <1>1 DEF ReleasePress, Canvases
<1>3. c.live.of \in Entities /\ c.selection \in SUBSET Entities
  BY CanvasParts DEF Good, Live
<1>4. picked \in SUBSET Entities
  BY <1>1, <1>3 DEF SymDiff
<1> HIDE DEF picked
<1>5. Closes(c, [Ended EXCEPT !.selection = picked])
  BY <1>1, <1>4, ClosesSelects
<1> QED
  BY <1>1, <1>2, <1>5, DoneMoves

\* What a drag placed goes; a drag that is over closes.
LEMMA CleanupCloses ==
    ASSUME Good(c), NEW placed
    PROVE  Closes(c, CleanupRoute(Ended, placed)) /\ CleanupRoute(Ended, placed) \in Canvases
<1> DEFINE doc == [e \in Entities |-> IF e \in placed THEN Gone ELSE Ended.model[e]]
           d == CleanupRoute(Ended, placed)
<1>1. Closes(c, Ended) /\ Ended \in Canvases /\ Ended.model \in Doc
  BY EndedCloses, CanvasParts
<1>2. doc \in Doc
  BY <1>1 DEF Doc
<1>3. d = Write(Ended, doc)
  BY DEF CleanupRoute
<1> HIDE DEF doc
<1>4. Around(Ended, d) /\ d.live = Ended.live
  BY <1>1, <1>2, <1>3, WriteAround
<1> HIDE DEF d
<1>5. Closes(c, d) /\ d \in Canvases
  BY <1>1, <1>4, ClosesKeepsLive DEF Around
<1> QED
  BY <1>5 DEF d

LEMMA JudgedCloses ==
    ASSUME Good(c), ~c.readOnly, NEW keep \in SUBSET Waypoints, NEW refused \in BOOLEAN
    PROVE  Closes(c, Judged(keep, refused))
<1> DEFINE cleaned == CleanupRoute(Ended, c.live.placed \ keep)
           ops == Restrict(c.model, keep)
<1>1. Closes(c, cleaned)
  BY CleanupCloses
<1>2. keep \in SUBSET Entities /\ c.model \in Doc
  BY EntitiesKnown, CanvasParts DEF Good
<1>3. ops \in Ops
  BY <1>2, RestrictedDoc
<1>4. Judged(keep, refused) = IF keep = {} THEN cleaned ELSE CommitDrawn(cleaned, ops, refused)
  BY DEF Judged
<1> HIDE DEF ops, cleaned
<1>5. Closes(c, CommitDrawn(cleaned, ops, refused))
  BY <1>1, <1>3, ClosesCommit
<1> QED
  BY <1>1, <1>4, <1>5

LEMMA LinkedCloses ==
    ASSUME Good(c), ~c.readOnly, NEW refused \in BOOLEAN
    PROVE  Closes(c, Linked(refused)) /\ Linked(refused) \in Canvases
<1> DEFINE ops == Restrict(c.model, c.live.placed)
           sent == CommitDrawn(Ended, ops, refused)
<1>1. c.live.placed \in SUBSET Entities /\ c.model \in Doc
  BY EntitiesKnown, CanvasParts DEF Good, Live
<1>2. ops \in Ops
  BY <1>1, RestrictedDoc
<1>3. Linked(refused) = [sent EXCEPT !.selection = {}]
  BY DEF Linked
<1> HIDE DEF ops
<1>4. Closes(c, sent)
  BY <1>2, EndedCloses, ClosesCommit
<1> HIDE DEF sent
<1>5. Closes(c, [sent EXCEPT !.selection = {}])
  BY <1>4, ClosesSelects
<1> QED
  BY <1>3, <1>5 DEF Closes

\* A chain goes on where the segment ended.
LEMMA ChainCloses ==
    ASSUME NEW d, Closes(c, d), ~c.readOnly, NEW e \in Entities
    PROVE  Closes(c, [d EXCEPT !.live = LinkFrom(e)])
<1>1. d \in Canvases /\ ~d.readOnly
  BY DEF Closes
<1>2. Around(d, [d EXCEPT !.live = LinkFrom(e)])
  BY <1>1, LinkFromLive, LiveAround
<1>3. Silent([d EXCEPT !.live = LinkFrom(e)])
  BY <1>1, <1>2 DEF Around, Silent
<1> QED
  BY <1>2, <1>3, ClosesLooks

LEMMA ReleaseLinkMoves ==
    ASSUME Good(c), NEW t \in Targets, NEW admitted \in BOOLEAN, NEW shift \in BOOLEAN,
           ReleaseLink(t, admitted, shift)
    PROVE  Moves(c, c')
<1> DEFINE r == Found(t, admitted, FALSE, FALSE, shift, shift)
<1>1. c.live.name = "link"
  BY DEF ReleaseLink, Drawing
<1>2. ~c.readOnly
  BY <1>1, EditsUnlocked DEF Editing
<1>3. c.live.placed \in SUBSET Waypoints
  BY CanvasParts DEF Good, Live
<1>4. ASSUME LinkMeans("commit-and-chain", r) \/ LinkMeans("chain-on", r)
      PROVE  t \in Entities
  <2>1. ChainsOn(r)
    BY <1>4 DEF LinkMeans
  <2>2. t # Gone
    BY <2>1 DEF ChainsOn, Found
  <2> QED
    BY <2>2, EntitiesKnown DEF Targets, Anchors
<1> HIDE DEF r
<1>5. \/ \E keep \in SUBSET c.live.placed, refused \in BOOLEAN : Done(Judged(keep, refused))
      \/ \E refused \in BOOLEAN : Done(Linked(refused))
      \/ /\ LinkMeans("commit-and-chain", r)
         /\ \E refused \in BOOLEAN : Done([Linked(refused) EXCEPT !.live = LinkFrom(t)])
      \/ LinkMeans("chain-on", r) /\ Done([Ended EXCEPT !.live = LinkFrom(t)])
      \/ Done(CleanupRoute(Ended, c.live.placed))
  BY Zenon DEF ReleaseLink, r
<1>6. CASE \E keep \in SUBSET c.live.placed, refused \in BOOLEAN : Done(Judged(keep, refused))
  <2>1. PICK keep \in SUBSET c.live.placed, refused \in BOOLEAN : Done(Judged(keep, refused))
    BY <1>6
  <2>2. keep \in SUBSET Waypoints
    BY <1>3
  <2> QED
    BY <1>2, <2>1, <2>2, JudgedCloses, DoneMoves
<1>7. CASE \E refused \in BOOLEAN : Done(Linked(refused))
  BY <1>2, <1>7, LinkedCloses, DoneMoves
<1>8. CASE /\ LinkMeans("commit-and-chain", r)
           /\ \E refused \in BOOLEAN : Done([Linked(refused) EXCEPT !.live = LinkFrom(t)])
  <2>1. PICK refused \in BOOLEAN : Done([Linked(refused) EXCEPT !.live = LinkFrom(t)])
    BY <1>8
  <2>2. Closes(c, Linked(refused)) /\ t \in Entities
    BY <1>2, <1>4, <1>8, LinkedCloses
  <2> QED
    BY <1>2, <2>1, <2>2, ChainCloses, DoneMoves
<1>9. CASE LinkMeans("chain-on", r) /\ Done([Ended EXCEPT !.live = LinkFrom(t)])
  <2>1. Closes(c, Ended) /\ t \in Entities
    BY <1>4, <1>9, EndedCloses
  <2> QED
    BY <1>2, <1>9, <2>1, ChainCloses, DoneMoves
<1>10. CASE Done(CleanupRoute(Ended, c.live.placed))
  BY <1>10, CleanupCloses, DoneMoves
<1> QED
  BY <1>5, <1>6, <1>7, <1>8, <1>9, <1>10

LEMMA ClickLinkMoves ==
    ASSUME Good(c), NEW hand \in BOOLEAN, NEW pressShift \in BOOLEAN, ClickLink(hand, pressShift)
    PROVE  Moves(c, c')
<1> DEFINE ops == Restrict(c.model, {c.live.of})
           sent == Commit(Ended, ops)
           picked == SymDiff(Ended.selection, {c.live.of})
<1>1. c.live.name = "link"
  BY DEF ClickLink, Drawing
<1>2. ~c.readOnly
  BY <1>1, EditsUnlocked DEF Editing
<1>3. c.live.of \in Entities /\ c.model \in Doc /\ c.selection \in SUBSET Entities
  BY CanvasParts DEF Good, Live
<1>4. Closes(c, Ended) /\ Ended \in Canvases /\ Ended.selection = c.selection
  BY EndedCloses
<1>5. \/ Done([sent EXCEPT !.selection = {c.live.of}])
      \/ Done([Ended EXCEPT !.selection = SymDiff(@, {c.live.of})])
      \/ Done([Ended EXCEPT !.selection = {c.live.of}])
      \/ Done(Ended)
  BY Zenon DEF ClickLink
<1>6. [Ended EXCEPT !.selection = SymDiff(@, {c.live.of})] = [Ended EXCEPT !.selection = picked]
  BY <1>4 DEF Canvases
<1>7. ops \in Ops /\ picked \in SUBSET Entities /\ {c.live.of} \in SUBSET Entities
  BY <1>3, <1>4, RestrictedDoc DEF SymDiff
<1> HIDE DEF ops, picked
<1>8. Closes(c, sent)
  BY <1>2, <1>4, <1>7, ClosesCommit DEF Commit
<1> HIDE DEF sent
<1>9. /\ Closes(c, [sent EXCEPT !.selection = {c.live.of}])
      /\ Closes(c, [Ended EXCEPT !.selection = picked])
      /\ Closes(c, [Ended EXCEPT !.selection = {c.live.of}])
  BY <1>4, <1>7, <1>8, ClosesSelects
<1> QED
  BY <1>4, <1>5, <1>6, <1>9, DoneMoves

-----------------------------------------------------------------------------
(* Keys                                                                     *)

\* A commit with no gesture over.
LEMMA CommitMoves ==
    ASSUME Good(c), ~c.readOnly, NEW ops \in Ops, c' = Commit(c, ops)
    PROVE  Moves(c, c')
<1>1. Asked(c, c')
  BY CommitAsks DEF Commit, Good
<1>2. Good(c') /\ (c.overtaken => c'.overtaken)
  BY <1>1, GoodAsks DEF Asked
<1> QED
  BY <1>2, FreeMoves

LEMMA PlaceWaypointMoves ==
    ASSUME Good(c), NEW w \in Waypoints, PlaceWaypoint(w)
    PROVE  Moves(c, c')
<1> DEFINE ops == Each({w}, Min(Places))
           d == Commit(c, ops)
           picked == {w} \cap Alive(d.model)
<1>1. c' = [d EXCEPT !.selection = picked] /\ ~c.readOnly
  BY DEF PlaceWaypoint
<1>2. ops \in Ops /\ picked \in SUBSET Entities
  BY EachOps, LowestPlace, EntitiesKnown
<1> HIDE DEF ops, picked
<1>3. Asked(c, d)
  BY <1>2, CommitAsks DEF Commit, Good
<1> HIDE DEF d
<1>4. Good(d) /\ d \in Canvases
  BY <1>1, <1>3, GoodAsks DEF Good
<1>5. Around(d, c') /\ c'.live = d.live
  BY <1>1, <1>2, <1>4, SelectionAround
<1>6. Moves(d, c')
  BY <1>4, <1>5, GoodKeepsLive
<1> QED
  BY <1>1, <1>3, <1>6 DEF Moves, Asked

LEMMA UndoMoves ==
    ASSUME Good(c), Undo
    PROVE  Moves(c, c')
<1> DEFINE r == [undo |-> TRUE, ops |-> Nothing, applied |-> Nothing, left |-> {}]
<1>1. r \in Request
  BY NothingOps DEF Request
<1>2. c' = [c EXCEPT !.own = Append(@, r)] /\ ~c.readOnly
  BY DEF Undo, KeyEdits
<1> HIDE DEF r
<1>3. Asked(c, c')
  BY <1>1, <1>2, AppendOwn DEF Good
<1>4. Good(c') /\ (c.overtaken => c'.overtaken)
  BY <1>2, <1>3, GoodAsks DEF Asked
<1> QED
  BY <1>2, <1>4, FreeMoves

LEMMA DeleteMoves ==
    ASSUME Good(c), Delete
    PROVE  Moves(c, c')
<1> DEFINE ops == Each(c.selection, Gone)
<1>1. c' = Commit(c, ops) /\ ~c.readOnly
  BY DEF Delete, KeyEdits
<1>2. ops \in Ops
  BY EachOps, CanvasParts DEF Good
<1> HIDE DEF ops
<1> QED
  BY <1>1, <1>2, CommitMoves

LEMMA NudgeMoves ==
    ASSUME Good(c), NEW v \in Places, Nudge(v)
    PROVE  Moves(c, c')
<1> DEFINE ops == Each(c.selection, v)
<1>1. c' = Commit(c, ops) /\ ~c.readOnly
  BY DEF Nudge, KeyEdits
<1>2. ops \in Ops
  BY EachOps, CanvasParts DEF Good
<1> HIDE DEF ops
<1> QED
  BY <1>1, <1>2, CommitMoves

LEMMA SelectionMoves ==
    ASSUME Good(c), NEW picked \in SUBSET Entities, c' = [c EXCEPT !.selection = picked]
    PROVE  Moves(c, c')
<1>1. Around(c, c') /\ c'.live = c.live
  BY SelectionAround DEF Good
<1> QED
  BY <1>1, GoodKeepsLive

LEMMA SelectAllMoves ==
    ASSUME Good(c), SelectAll
    PROVE  Moves(c, c')
<1>1. c' = [c EXCEPT !.selection = Alive(c.model) \ Waypoints] /\ Alive(c.model) \ Waypoints \in SUBSET Entities
  BY DEF SelectAll, Looks, Alive
<1> QED
  BY <1>1, SelectionMoves

LEMMA RestsMoves ==
    ASSUME NEW d, NEW e, Rests(d, e)
    PROVE  Moves(d, e)
  BY NoneHeldGood, IdleSilent DEF Rests, Moves

LEMMA CancelMoves ==
    ASSUME Good(c), c' = Cancel(c)
    PROVE  Moves(c, c')
<1>1. Rests(c, Cancel(c))
  BY CancelRests DEF Good
<1> QED
  BY <1>1, RestsMoves

LEMMA EscapeMoves ==
    ASSUME Good(c), Escape
    PROVE  Moves(c, c')
<1>1. c' = Cancel(c) \/ c' = [c EXCEPT !.selection = {}]
  BY DEF Escape, Looks
<1> QED
  BY <1>1, CancelMoves, SelectionMoves

LEMMA PointerLostMoves ==
    ASSUME Good(c), PointerLost
    PROVE  Moves(c, c')
<1>1. c' = Cancel(c)
  BY DEF PointerLost, Looks
<1> QED
  BY <1>1, CancelMoves

-----------------------------------------------------------------------------
(* The server                                                               *)

LEMMA HearsMoves ==
    ASSUME Good(c), NEW m \in Message, m.cmd = "ack" => Waiting(c) < Len(c.own), Hears(c, m)
    PROVE  Moves(c, c')
<1>1. Good(Hear(c, m)) /\ Len(Hear(c, m).own) <= Len(c.own) /\ (c.overtaken => Hear(c, m).overtaken)
  BY HearGood
<1> QED
  BY <1>1 DEF Hears, Moves

LEMMA PeerEditsMoves ==
    ASSUME TypeOK, Good(c), NEW e \in Entities, NEW v \in Places \cup {Gone}, PeerEdits(e, v)
    PROVE  Moves(c, c') /\ server' \in Doc
<1> DEFINE m == [cmd |-> "change", ops |-> Each({e}, v)]
<1>1. Each({e}, v) \in Ops
  BY EachOps
<1>2. m \in Message /\ m.cmd # "ack"
  BY <1>1 DEF Message
<1>3. Hears(c, m)
  BY DEF PeerEdits
<1> HIDE DEF m
<1>4. Moves(c, c')
  BY <1>2, <1>3, HearsMoves
<1>5. server' \in Doc
  BY DEF PeerEdits, TypeOK, Doc
<1> QED
  BY <1>4, <1>5

LEMMA SnapshotComesMoves ==
    ASSUME TypeOK, Good(c), SnapshotComes
    PROVE  Moves(c, c')
<1> DEFINE m == [cmd |-> "snapshot", doc |-> server]
<1>1. m \in Message /\ m.cmd # "ack"
  BY DEF Message, TypeOK
<1>2. Hears(c, m)
  BY DEF SnapshotComes
<1> HIDE DEF m
<1> QED
  BY <1>1, <1>2, HearsMoves

LEMMA AnsweredWaits ==
    ASSUME Good(c)
    PROVE  Answered = Waiting(c)
<1>1. c.deferred \in Seq(Message)
  BY CanvasParts DEF Good
<1>2. DOMAIN c.deferred = 1 .. Len(c.deferred)
  BY <1>1
<1> QED
  BY <1>2 DEF Answered, Waiting, Answers

LEMMA NextOwnKnown ==
    ASSUME Good(c), Unanswered
    PROVE  Waiting(c) < Len(c.own) /\ Answered + 1 \in 1 .. Len(c.own) /\ c.own \in Seq(Request)
           /\ NextOwn.ops \in Ops
<1>1. c.own \in Seq(Request) /\ Waiting(c) \in Nat /\ Len(c.own) \in Nat
  BY CanvasParts, WaitingNat DEF Good
<1>2. Answered = Waiting(c) /\ Answered < Len(c.own)
  BY AnsweredWaits DEF Unanswered
<1>3. Answered + 1 \in 1 .. Len(c.own)
  BY <1>1, <1>2
<1> QED
  BY <1>1, <1>2, <1>3, RequestParts DEF NextOwn

LEMMA AcceptMoves ==
    ASSUME TypeOK, Good(c), Accept
    PROVE  Moves(c, c') /\ server' \in Doc
<1>1. NextOwn.ops \in Ops /\ Waiting(c) < Len(c.own)
  BY NextOwnKnown DEF Accept
<1>2. server \in Doc
  BY DEF TypeOK
<1> DEFINE changed == Restrict(server', {e \in Entities : server'[e] # server[e]})
           m == [cmd |-> "ack", ops |-> changed]
           options == IF NextOwn.undo THEN {Each({e}, v) : e \in {Device, Zone}, v \in Places \cup {Gone}}
                      ELSE {Nothing}
<1>3. PICK undone \in options :
         /\ server' = IF NextOwn.undo THEN Atop(undone, server) ELSE Over(NextOwn.ops, server)
         /\ Hears(c, m)
  BY DEF Accept
<1>4. undone \in Ops
  <2>1. \A e \in {Device, Zone}, v \in Places \cup {Gone} : Each({e}, v) \in Ops
    BY EntitiesKnown, EachOps
  <2> QED
    BY <2>1, NothingOps
<1> HIDE DEF options
<1>5. server' \in Doc
  BY <1>1, <1>2, <1>3, <1>4, JoinedDoc, OverDoc
<1>6. changed \in Ops
  BY <1>5, RestrictedDoc
<1>7. m \in Message
  BY <1>6 DEF Message
<1> HIDE DEF m
<1>8. Moves(c, c')
  BY <1>1, <1>3, <1>7, HearsMoves
<1> QED
  BY <1>5, <1>8

LEMMA RemoveShortens ==
    ASSUME NEW A, NEW s \in Seq(A), NEW i \in 1 .. Len(s)
    PROVE  RemoveAt(s, i) \in Seq(A) /\ Len(RemoveAt(s, i)) = Len(s) - 1
<1> DEFINE before == SubSeq(s, 1, i - 1)
           after == SubSeq(s, i + 1, Len(s))
<1>1. Len(s) \in Nat
  OBVIOUS
<1>2. before \in Seq(A) /\ Len(before) = i - 1
  BY <1>1, SubSeqProperties
<1>3. after \in Seq(A) /\ Len(after) = Len(s) - i
  BY <1>1, SubSeqProperties
<1>4. RemoveAt(s, i) = before \o after
  BY DEF RemoveAt
<1> HIDE DEF before, after
<1>5. before \o after \in Seq(A) /\ Len(before \o after) = Len(before) + Len(after)
  BY <1>2, <1>3, ConcatProperties
<1> QED
  BY <1>1, <1>2, <1>3, <1>4, <1>5

LEMMA RefuseMoves ==
    ASSUME TypeOK, Good(c), Refuse
    PROVE  Moves(c, c')
<1> DEFINE m == [cmd |-> "snapshot", doc |-> server]
           fewer == RemoveAt(c.own, Answered + 1)
           d == [c EXCEPT !.own = fewer]
<1>1. m \in Message /\ m.cmd # "ack"
  BY DEF Message, TypeOK
<1>2. Waiting(c) < Len(c.own) /\ Answered + 1 \in 1 .. Len(c.own) /\ c.own \in Seq(Request) /\ c \in Canvases
  BY NextOwnKnown DEF Refuse, Good
<1>3. fewer \in Seq(Request) /\ Len(fewer) = Len(c.own) - 1
  BY <1>2, RemoveShortens
<1>4. c' = Hear(d, m)
  BY <1>2 DEF Refuse, Hears, Canvases
<1> HIDE DEF fewer, m
<1>5. /\ d \in Canvases /\ d.own = fewer /\ d.deferred = c.deferred /\ d.live = c.live /\ d.readOnly = c.readOnly
      /\ d.overtaken = c.overtaken
  BY <1>2, <1>3 DEF Canvases
<1> HIDE DEF d
<1>6. Waiting(c) \in Nat /\ Len(c.own) \in Nat /\ Waiting(d) = Waiting(c)
  BY <1>2, <1>5, WaitingNat DEF Waiting
<1>7. Counted(d)
  BY <1>2, <1>3, <1>5, <1>6 DEF Counted
<1>8. Good(d)
  BY <1>5, <1>7 DEF Good, Held, Silent, Gesturing
<1>9. Good(c') /\ Len(c'.own) <= Len(d.own) /\ (c.overtaken => c'.overtaken)
  BY <1>1, <1>4, <1>5, <1>8, HearGood
<1>10. Len(c'.own) \in Nat
  BY <1>9, WaitingNat DEF Good
<1>11. Len(c'.own) <= Len(c.own)
  BY <1>3, <1>5, <1>6, <1>9, <1>10
<1> QED
  BY <1>9, <1>11 DEF Moves

LEMMA LockMoves ==
    ASSUME Good(c), Lock
    PROVE  Moves(c, c')
<1> DEFINE d == [c EXCEPT !.readOnly = TRUE]
<1>1. c' = Cancel(d) /\ ~c.readOnly
  BY DEF Lock, Looks
<1>2. d \in Canvases /\ d.own = c.own /\ d.deferred = c.deferred /\ d.live = c.live /\ d.overtaken = c.overtaken
  BY DEF Good, Canvases
<1> HIDE DEF d
<1>3. Held(d) /\ Counted(d)
  BY <1>2 DEF Good, Held, Counted, Waiting, Gesturing
<1>4. Rests(d, c')
  BY <1>1, <1>2, <1>3, CancelRests
<1>5. Good(c') /\ (c.overtaken => c'.overtaken)
  BY <1>2, <1>4, RestsMoves DEF Moves
<1> QED
  BY <1>1, <1>5, FreeMoves

LEMMA UnlockMoves ==
    ASSUME Good(c), Unlock
    PROVE  Moves(c, c')
<1>1. c' = [c EXCEPT !.readOnly = FALSE]
  BY DEF Unlock, Looks
<1>2. c' \in Canvases /\ c'.own = c.own /\ c'.deferred = c.deferred /\ c'.live = c.live /\ ~c'.readOnly /\ c'.overtaken = c.overtaken
  BY <1>1 DEF Good, Canvases
<1>3. Len(c.own) \in Nat
  BY WaitingNat DEF Good
<1>4. Good(c')
  BY <1>2 DEF Good, Held, Counted, Waiting, Gesturing, Silent
<1> QED
  BY <1>2, <1>3, <1>4 DEF Moves

-----------------------------------------------------------------------------
(* Every step                                                               *)

LEMMA PressesMove ==
    ASSUME Good(c), Presses
    PROVE  Moves(c, c')
  BY PressLinkMoves, PressHandleMoves, PressSelectsMoves, PressClonesMoves, PressDeletesMoves, DoubleMoves,
     PressGroundMoves, PressInChainMoves DEF Presses

LEMMA DragsMove ==
    ASSUME Good(c), Drags
    PROVE  Moves(c, c')
  BY StartMoveMoves, StartCloneMoves, DragMoves, DragHandleMoves, AddStopMoves, ChainThroughNodeMoves DEF Drags

LEMMA ReleasesMove ==
    ASSUME Good(c), Releases
    PROVE  Moves(c, c')
  BY ReleaseMoveMoves, ReleaseCloneMoves, ReleasePressMoves, ReleaseMarqueeMoves, ReleaseHandleMoves,
     ReleaseBoxMoves, StampClickedMoves, ReleaseLinkMoves, ClickLinkMoves DEF Releases

LEMMA KeysMove ==
    ASSUME Good(c), Keys
    PROVE  Moves(c, c')
  BY PlaceWaypointMoves, NudgeMoves, UndoMoves, DeleteMoves, SelectAllMoves, EscapeMoves, PointerLostMoves DEF Keys

LEMMA ServerMoves ==
    ASSUME TypeOK, Good(c), Server
    PROVE  Moves(c, c')
  BY PeerEditsMoves, SnapshotComesMoves, AcceptMoves, RefuseMoves, LockMoves, UnlockMoves DEF Server

LEMMA NextMoves ==
    ASSUME TypeOK, Good(c), Next
    PROVE  Moves(c, c')
  BY PressesMove, DragsMove, ReleasesMove, KeysMove, ServerMoves DEF Next

\* The hands on the tab leave the server's document alone, and count what they ask.
Tells == asks' \in 0 .. MaxEdits /\ server' \in Doc /\ heard' \in 0 .. MaxInbound

LEMMA TabTells ==
    ASSUME TypeOK, (asks' = asks \/ (asks < MaxEdits /\ asks' = asks + 1)) /\ Here
    PROVE  Tells
<1>1. MaxEdits \in Nat
  BY CanvasAssumption
<1>2. asks' \in 0 .. MaxEdits
  BY <1>1 DEF TypeOK
<1> QED
  BY <1>2 DEF Tells, TypeOK, Here

LEMMA PressesTell ==
    ASSUME TypeOK, Presses
    PROVE  Tells
<1>1. (asks' = asks \/ (asks < MaxEdits /\ asks' = asks + 1)) /\ Here
  BY Zenon DEF Presses, PressLink, PressHandle, PressSelects, PressClones, PressDeletes, Double, PressGround,
               PressInChain, Looks, Asks
<1> QED
  BY <1>1, TabTells

LEMMA DragsTell ==
    ASSUME TypeOK, Drags
    PROVE  Tells
<1>1. (asks' = asks \/ (asks < MaxEdits /\ asks' = asks + 1)) /\ Here
  BY Zenon DEF Drags, StartMove, StartClone, Drag, DragHandle, AddStop, ChainThroughNode, Looks, Asks
<1> QED
  BY <1>1, TabTells

LEMMA ReleasesTell ==
    ASSUME TypeOK, Releases
    PROVE  Tells
<1>0. ASSUME NEW b, AsksIf(b)
      PROVE  (asks' = asks \/ (asks < MaxEdits /\ asks' = asks + 1)) /\ Here
  BY <1>0 DEF AsksIf, Asks
<1>1. CASE ReleaseMove \/ ReleaseClone \/ ReleasePress \/ \E shift \in BOOLEAN : ReleaseMarquee(shift)
  <2>1. (asks' = asks \/ (asks < MaxEdits /\ asks' = asks + 1)) /\ Here
    BY <1>1, Zenon DEF ReleaseMove, ReleaseClone, ReleasePress, ReleaseMarquee, Asks
  <2> QED
    BY <2>1, TabTells
<1>2. CASE (\E v \in Places : ReleaseHandle(v)) \/ (\E area \in BOOLEAN : ReleaseBox(area))
  <2>1. (asks' = asks \/ (asks < MaxEdits /\ asks' = asks + 1)) /\ Here
    BY <1>0, <1>2, Zenon DEF ReleaseHandle, ReleaseBox, Asks
  <2> QED
    BY <2>1, TabTells
<1>3. CASE (\E w \in Waypoints : StampClicked(w)) \/ (\E hand, pressShift \in BOOLEAN : ClickLink(hand, pressShift))
  <2>1. (asks' = asks \/ (asks < MaxEdits /\ asks' = asks + 1)) /\ Here
    BY <1>3, Zenon DEF StampClicked, ClickLink, Asks
  <2> QED
    BY <2>1, TabTells
<1>4. CASE \E t \in Targets, admitted, shift \in BOOLEAN : ReleaseLink(t, admitted, shift)
  <2>1. (asks' = asks \/ (asks < MaxEdits /\ asks' = asks + 1)) /\ Here
    BY <1>0, <1>4, Zenon DEF ReleaseLink, Asks
  <2> QED
    BY <2>1, TabTells
<1> QED
  BY <1>1, <1>2, <1>3, <1>4 DEF Releases

LEMMA KeysTell ==
    ASSUME TypeOK, Keys
    PROVE  Tells
<1>1. (asks' = asks \/ (asks < MaxEdits /\ asks' = asks + 1)) /\ Here
  BY Zenon DEF Keys, PlaceWaypoint, Nudge, Undo, Delete, SelectAll, Escape, PointerLost, Looks, Asks
<1> QED
  BY <1>1, TabTells

LEMMA ServerTells ==
    ASSUME TypeOK, Good(c), Server
    PROVE  Tells
<1>1. server' \in Doc
  <2>1. server' = server \/ Accept \/ \E e \in Entities, v \in Places \cup {Gone} : PeerEdits(e, v)
    BY DEF Server, SnapshotComes, Refuse, Lock, Unlock, Looks, Here
  <2> QED
    BY <2>1, AcceptMoves, PeerEditsMoves DEF TypeOK
<1>2. asks' = asks /\ (heard' = heard \/ (heard < MaxInbound /\ heard' = heard + 1))
  <2>1. CASE \E e \in Entities, v \in Places \cup {Gone} : PeerEdits(e, v)
    BY <2>1 DEF PeerEdits
  <2>2. CASE SnapshotComes
    BY <2>2 DEF SnapshotComes
  <2>3. CASE Accept
    BY <2>3 DEF Accept
  <2>4. CASE Refuse \/ Lock \/ Unlock
    BY <2>4 DEF Refuse, Lock, Unlock, Looks, Here
  <2> QED
    BY <2>1, <2>2, <2>3, <2>4 DEF Server
<1>3. heard' \in 0 .. MaxInbound
  BY <1>2, CanvasAssumption DEF TypeOK
<1> QED
  BY <1>1, <1>2, <1>3 DEF Tells, TypeOK

\* What is held is held by a gesture, a lock is silent, and everything has its type.
Inv == TypeOK /\ Good(c)

LEMMA InitInv == Init => Inv
<1> SUFFICES ASSUME Init PROVE Inv
  OBVIOUS
<1>1. NewCanvas.model \in Doc
  BY LowestPlace DEF NewCanvas, Doc
<1>2. << >> \in Seq(Request) /\ << >> \in Seq(Message)
  OBVIOUS
<1>3. NewCanvas \in Canvases /\ NewCanvas.deferred = << >> /\ NewCanvas.live = Idle
  BY <1>1, <1>2, IdleLive, NoPreviewDoc DEF NewCanvas, Canvases
<1>4. Good(NewCanvas)
  BY <1>3, NoneHeldGood, IdleSilent
<1>5. asks \in 0 .. MaxEdits /\ heard \in 0 .. MaxInbound
  BY CanvasAssumption DEF Init
<1> QED
  BY <1>1, <1>3, <1>4, <1>5 DEF Init, Inv, TypeOK

LEMMA NextInv == Inv /\ [Next]_vars => Inv'
<1> SUFFICES ASSUME Inv, [Next]_vars PROVE Inv'
  OBVIOUS
<1>1. CASE Next
  <2>1. Moves(c, c')
    BY <1>1, NextMoves DEF Inv
  <2>2. Tells
    BY <1>1, PressesTell, DragsTell, ReleasesTell, KeysTell, ServerTells DEF Inv, Next
  <2>3. Good(c') /\ c' \in Canvases
    BY <2>1 DEF Moves, Good
  <2>4. TypeOK'
    BY <2>2, <2>3 DEF TypeOK, Tells
  <2> QED
    BY <2>3, <2>4 DEF Inv
<1>2. CASE UNCHANGED vars
  BY <1>2 DEF Inv, TypeOK, vars
<1> QED
  BY <1>1, <1>2

THEOREM InvariantHolds == Spec => []Inv
<1> QED
  BY InitInv, NextInv, PTL DEF Spec

\* Every canvas has the type it is given: what a gesture, a message or a key leaves.
THEOREM TypeCorrect == Spec => []TypeOK
<1>1. Inv => TypeOK
  BY DEF Inv
<1> QED
  BY <1>1, InvariantHolds, PTL

\* However a gesture ends -- a drop, a chain's last release, Escape, a lost pointer, a
\* lock, another press -- nothing the server sent stays waiting behind it.
THEOREM HeldOnlyByGestures == Spec => []HeldByGesture
<1>1. Inv => HeldByGesture
  BY DEF Inv, Good, Held, HeldByGesture
<1> QED
  BY <1>1, InvariantHolds, PTL

\* A locked canvas has no editing gesture, and asks for nothing.
THEOREM LockedIsSilent == Spec => LockedAuthorsNothing
<1>1. Inv /\ [Next]_vars => [c.readOnly => c.live.name \notin Editing /\ Len(c'.own) <= Len(c.own)]_vars
  <2> SUFFICES ASSUME Inv, Next, c.readOnly
               PROVE  c.live.name \notin Editing /\ Len(c'.own) <= Len(c.own)
    OBVIOUS
  <2>1. Moves(c, c')
    BY NextMoves DEF Inv
  <2> QED
    BY <2>1 DEF Moves, Inv, Good, Silent
<1> QED
  BY <1>1, InvariantHolds, PTL DEF Spec, LockedAuthorsNothing

-----------------------------------------------------------------------------
(* What is pending of an entity is what the last request of it says         *)

\* Of the first n requests, the last that says anything of e.
Latest(own, n, e, i) ==
    /\ i \in 1 .. n /\ e \in DOMAIN own[i].applied
    /\ \A j \in i + 1 .. n : e \notin DOMAIN own[j].applied

\* What the first n come to.
Sums(own, n, e, P) ==
    /\ e \in DOMAIN P <=> \E i \in 1 .. n : e \in DOMAIN own[i].applied
    /\ e \in DOMAIN P => \E i \in 1 .. n : Latest(own, n, e, i)
    /\ \A i \in 1 .. n : Latest(own, n, e, i) => P[e] = own[i].applied[e]

LEMMA AtopAt ==
    ASSUME NEW f, NEW g, NEW e
    PROVE  /\ e \in DOMAIN Atop(f, g) <=> e \in DOMAIN f \/ e \in DOMAIN g
           /\ e \in DOMAIN Atop(f, g) => Atop(f, g)[e] = IF e \in DOMAIN f THEN f[e] ELSE g[e]
  BY DEF Atop

LEMMA SumsStep ==
    ASSUME NEW own \in Seq(Request), NEW n \in Nat, n + 1 <= Len(own), NEW e, NEW P, Sums(own, n, e, P)
    PROVE  Sums(own, n + 1, e, Atop(own[n + 1].applied, P))
<1> DEFINE a == own[n + 1].applied
           Q == Atop(a, P)
<1>0. \A i : i \in 1 .. n + 1 <=> i \in 1 .. n \/ i = n + 1
  OBVIOUS
<1>1. e \in DOMAIN Q <=> e \in DOMAIN a \/ e \in DOMAIN P
  BY AtopAt
<1>2. e \in DOMAIN Q => Q[e] = IF e \in DOMAIN a THEN a[e] ELSE P[e]
  BY AtopAt
<1> HIDE DEF Q
<1>3. e \in DOMAIN Q <=> \E i \in 1 .. n + 1 : e \in DOMAIN own[i].applied
  BY <1>0, <1>1 DEF Sums
<1>4. CASE e \in DOMAIN a
  <2>1. Latest(own, n + 1, e, n + 1)
    BY <1>4 DEF Latest
  <2>2. ASSUME NEW i \in 1 .. n + 1, Latest(own, n + 1, e, i)
        PROVE  i = n + 1
    <3>1. i # n + 1 => n + 1 \in i + 1 .. n + 1
      OBVIOUS
    <3> QED
      BY <1>4, <2>2, <3>1 DEF Latest
  <2>3. Q[e] = own[n + 1].applied[e]
    BY <1>1, <1>2, <1>4
  <2> QED
    BY <1>3, <2>1, <2>2, <2>3, <1>0 DEF Sums, Q
<1>5. CASE e \notin DOMAIN a
  <2>1. \A i \in 1 .. n : Latest(own, n, e, i) => Latest(own, n + 1, e, i)
    <3> SUFFICES ASSUME NEW i \in 1 .. n, Latest(own, n, e, i), NEW j \in i + 1 .. n + 1
                 PROVE  e \notin DOMAIN own[j].applied
      BY <1>0 DEF Latest
    <3>1. j = n + 1 \/ j \in i + 1 .. n
      OBVIOUS
    <3> QED
      BY <1>5, <3>1 DEF Latest
  <2>2. \A i \in 1 .. n + 1 : Latest(own, n + 1, e, i) => i \in 1 .. n /\ Latest(own, n, e, i)
    <3> SUFFICES ASSUME NEW i \in 1 .. n + 1, Latest(own, n + 1, e, i)
                 PROVE  i \in 1 .. n /\ Latest(own, n, e, i)
      OBVIOUS
    <3>1. i # n + 1
      BY <1>5 DEF Latest
    <3>2. i \in 1 .. n /\ \A j \in i + 1 .. n : j \in i + 1 .. n + 1
      BY <3>1
    <3> QED
      BY <3>2 DEF Latest
  <2>3. e \in DOMAIN Q => e \in DOMAIN P /\ Q[e] = P[e]
    BY <1>1, <1>2, <1>5
  <2>4. \A i \in 1 .. n : Latest(own, n, e, i) => e \in DOMAIN Q
    BY <1>3, <1>0 DEF Latest
  <2> QED
    BY <1>0, <1>3, <2>1, <2>2, <2>3, <2>4 DEF Sums, Q
<1> QED
  BY <1>4, <1>5

LEMMA PendingSums ==
    ASSUME NEW own \in Seq(Request), NEW n \in 0 .. Len(own), NEW e
    PROVE  Sums(own, n, e, Pending(own)[n])
<1> DEFINE T == {k \in Nat : k <= Len(own) => Sums(own, k, e, Pending(own)[k])}
<1>0. Pending(own)[0] = Nothing /\ \A k \in 1 .. Len(own) : Pending(own)[k] = Atop(own[k].applied, Pending(own)[k - 1])
  BY PendingStep
<1>1. 0 \in T
  <2>1. DOMAIN Nothing = {}
    BY DEF Nothing
  <2>2. Sums(own, 0, e, Nothing)
    BY <2>1 DEF Sums
  <2> QED
    BY <1>0, <2>2
<1>2. ASSUME NEW k \in T
      PROVE  k + 1 \in T
  <2> SUFFICES ASSUME k + 1 <= Len(own) PROVE Sums(own, k + 1, e, Pending(own)[k + 1])
    OBVIOUS
  <2>1. k + 1 \in 1 .. Len(own) /\ (k + 1) - 1 = k /\ k <= Len(own) /\ k \in Nat
    BY LenProperties
  <2>2. Sums(own, k, e, Pending(own)[k]) /\ Pending(own)[k + 1] = Atop(own[k + 1].applied, Pending(own)[k])
    BY <1>0, <2>1
  <2> QED
    BY <2>1, <2>2, SumsStep
<1>3. T = Nat
  <2> HIDE DEF T
  <2>1. T \subseteq Nat
    BY DEF T
  <2> QED
    BY <1>1, <1>2, <2>1, NatFromZero
<1>4. n \in T /\ n <= Len(own)
  BY <1>3, LenProperties
<1> QED
  BY <1>4

LEMMA PendingIs ==
    ASSUME NEW own \in Seq(Request), NEW e
    PROVE  Sums(own, Len(own), e, PendingOps(own))
<1>1. Len(own) \in 0 .. Len(own)
  BY LenProperties
<1> QED
  BY <1>1, PendingSums DEF PendingOps

-----------------------------------------------------------------------------
(* Requests that do not undo a deletion                                     *)

\* A request is shown here and sent, or refused here and shown all the same, or an undo.
Proper(r) ==
    /\ r.undo => r.ops = Nothing
    /\ \/ r.left = {} /\ r.applied = r.ops
       \/ /\ r.applied = Nothing /\ r.left = DOMAIN r.ops
          /\ \A e \in r.left : e \in Fresh /\ r.ops[e] # Gone

Deletes(r, e) == e \in DOMAIN r.applied /\ r.applied[e] = Gone

\* What one of them deletes no later one brings back, and what stays shown is new.
Clean(own) ==
    /\ \A i \in 1 .. Len(own) : Proper(own[i])
    /\ \A i, j \in 1 .. Len(own) : i < j =>
          /\ \A e \in DOMAIN own[j].applied : Deletes(own[i], e) => own[j].applied[e] = Gone
          /\ own[j].left \cap DOMAIN own[i].ops = {}

DeletesShown(own, model) == \A i \in 1 .. Len(own) : \A e \in Entities : Deletes(own[i], e) => model[e] = Gone

LEMMA OverAt ==
    ASSUME NEW ops, NEW doc, NEW e \in Entities
    PROVE  Over(ops, doc)[e] = IF e \in DOMAIN ops /\ (doc[e] # Gone \/ e \in Fresh) THEN ops[e] ELSE doc[e]
  BY DEF Over

LEMMA PendingDeletes ==
    ASSUME NEW own \in Seq(Request), Clean(own), NEW i \in 1 .. Len(own), NEW e, Deletes(own[i], e)
    PROVE  e \in DOMAIN PendingOps(own) /\ PendingOps(own)[e] = Gone
<1>1. Sums(own, Len(own), e, PendingOps(own)) /\ e \in DOMAIN own[i].applied
  BY PendingIs DEF Deletes
<1>2. PICK j \in 1 .. Len(own) : Latest(own, Len(own), e, j)
  BY <1>1 DEF Sums
<1>3. PendingOps(own)[e] = own[j].applied[e] /\ e \in DOMAIN own[j].applied
  BY <1>1, <1>2 DEF Sums, Latest
<1>4. i <= j
  <2>1. Len(own) \in Nat
    OBVIOUS
  <2>2. i > j => i \in j + 1 .. Len(own)
    BY <2>1
  <2> QED
    BY <1>1, <1>2, <2>1, <2>2 DEF Latest
<1>5. i = j \/ i < j
  BY <1>4, LenProperties
<1> QED
  BY <1>1, <1>3, <1>5 DEF Clean, Deletes, Sums

\* Two lots of ops, where the second brings back nothing that the first deletes.
LEMMA OverTwice ==
    ASSUME NEW a, NEW P, NEW doc, \A e \in DOMAIN a \cap DOMAIN P : P[e] = Gone => a[e] = Gone
    PROVE  Over(a, Over(P, doc)) = Over(Atop(a, P), doc)
<1>1. ASSUME NEW e \in Entities
      PROVE  Over(a, Over(P, doc))[e] = Over(Atop(a, P), doc)[e]
  BY OverAt, AtopAt
<1>2. /\ Over(a, Over(P, doc)) = [e \in Entities |-> Over(a, Over(P, doc))[e]]
      /\ Over(Atop(a, P), doc) = [e \in Entities |-> Over(Atop(a, P), doc)[e]]
  BY DEF Over
<1> QED
  BY <1>1, <1>2

\* Replaying clean requests is putting what is pending over the document.
LEMMA ReappliedIs ==
    ASSUME NEW own \in Seq(Request), Clean(own), NEW doc \in Doc
    PROVE  Reapplied(own, doc) = Over(PendingOps(own), doc)
<1> DEFINE T == {k \in Nat : k <= Len(own) => Replayed(own, doc)[k] = Over(Pending(own)[k], doc)}
<1>0. /\ Pending(own)[0] = Nothing /\ \A n \in 1 .. Len(own) : Pending(own)[n] = Atop(own[n].applied, Pending(own)[n - 1])
      /\ Replayed(own, doc)[0] = doc
      /\ \A n \in 1 .. Len(own) : Replayed(own, doc)[n] = Over(own[n].applied, Replayed(own, doc)[n - 1])
  BY PendingStep, ReplayedStep
<1>1. 0 \in T
  <2>1. \A e \in Entities : Over(Nothing, doc)[e] = doc[e]
    BY OverAt DEF Nothing
  <2>2. Over(Nothing, doc) = [e \in Entities |-> Over(Nothing, doc)[e]] /\ doc = [e \in Entities |-> doc[e]]
    BY DEF Over, Doc
  <2> QED
    BY <1>0, <2>1, <2>2
<1>2. ASSUME NEW k \in T
      PROVE  k + 1 \in T
  <2> SUFFICES ASSUME k + 1 <= Len(own) PROVE Replayed(own, doc)[k + 1] = Over(Pending(own)[k + 1], doc)
    OBVIOUS
  <2>1. k + 1 \in 1 .. Len(own) /\ (k + 1) - 1 = k /\ k <= Len(own) /\ k \in Nat /\ k \in 0 .. Len(own)
    BY LenProperties
  <2> DEFINE a == own[k + 1].applied
             P == Pending(own)[k]
  <2>2. /\ Replayed(own, doc)[k + 1] = Over(a, Over(P, doc))
        /\ Pending(own)[k + 1] = Atop(a, P)
    BY <1>0, <2>1
  <2>3. ASSUME NEW e \in DOMAIN a \cap DOMAIN P, P[e] = Gone
        PROVE  a[e] = Gone
    <3>1. Sums(own, k, e, P)
      BY <2>1, PendingSums
    <3>2. PICK i \in 1 .. k : Latest(own, k, e, i)
      BY <3>1 DEF Sums
    <3>3. Deletes(own[i], e) /\ i \in 1 .. Len(own) /\ i < k + 1
      BY <2>1, <2>3, <3>1, <3>2 DEF Sums, Latest, Deletes
    <3> QED
      BY <2>1, <3>3 DEF Clean
  <2> HIDE DEF a, P
  <2>4. Over(a, Over(P, doc)) = Over(Atop(a, P), doc)
    BY <2>3, OverTwice
  <2> QED
    BY <2>2, <2>4
<1>3. T = Nat
  <2> HIDE DEF T
  <2>1. T \subseteq Nat
    BY DEF T
  <2> QED
    BY <1>1, <1>2, <2>1, NatFromZero
<1>4. Len(own) \in T /\ Len(own) <= Len(own)
  BY <1>3, LenProperties
<1> QED
  BY <1>4 DEF Reapplied, PendingOps

-----------------------------------------------------------------------------
(* What the canvas shows of a document                                      *)

LeftBy(own) == UNION {own[i].left : i \in 1 .. Len(own)}

\* The tab's unanswered edits over the document, but where its own planner refused.
Shows(own, model, doc) == \A e \in Entities \ LeftBy(own) : model[e] = Over(PendingOps(own), doc)[e]

\* Where ops landed, they and what is pending over them; the rest as it was.
Took(own, ops, model, next) ==
    /\ next \in Doc
    /\ \A e \in Entities : next[e] = IF e \in DOMAIN ops THEN Over(PendingOps(own), Atop(ops, model))[e]
                                                         ELSE model[e]

LEMMA RestrictAt ==
    ASSUME NEW f, NEW es, NEW e
    PROVE  /\ DOMAIN Restrict(f, es) = es
           /\ e \in es => Restrict(f, es)[e] = f[e]
  BY DEF Restrict

LEMMA WritePrunes ==
    ASSUME NEW d \in Canvases, NEW doc \in Doc
    PROVE  /\ Write(d, doc).model = doc /\ Write(d, doc).preview = d.preview
           /\ Write(d, doc).selection = d.selection \cap Alive(doc)
           /\ Write(d, doc).overtaken = d.overtaken
           /\ Write(d, doc).live = d.live /\ Write(d, doc).own = d.own /\ Write(d, doc).deferred = d.deferred
  BY DEF Write, Canvases

LEMMA TakeTakes ==
    ASSUME NEW d \in Canvases, NEW ops \in Ops, NEW own \in Seq(Request)
    PROVE  LET t == Take(d, ops, own) IN
           /\ Took(own, ops, d.model, t.model) /\ t.selection \subseteq Alive(t.model) /\ t.preview = d.preview
           /\ t.own = d.own
           /\ t.overtaken = (d.overtaken \/ (d.live.name = "handle" /\ d.live.of \in DOMAIN ops))
<1> DEFINE pending == PendingOps(own)
           kept == Restrict(pending, DOMAIN ops \cap DOMAIN pending)
           under == Atop(ops, d.model)
           over == Over(kept, under)
           told == d.overtaken \/ (d.live.name = "handle" /\ d.live.of \in DOMAIN ops)
           seen == [d EXCEPT !.overtaken = told]
           t == Take(d, ops, own)
<1>1. pending \in Ops
  BY PendingTyped
<1>2. d.model \in Doc
  BY CanvasParts
<1> HIDE DEF pending
<1>3. kept \in Ops
  BY <1>1, RestrictedOps
<1>4. under \in Doc
  BY <1>2, JoinedDoc
<1>5. \A e : /\ e \in DOMAIN kept <=> e \in DOMAIN ops /\ e \in DOMAIN pending
             /\ e \in DOMAIN kept => kept[e] = pending[e]
  BY RestrictAt
<1>6. ASSUME NEW e \in Entities
      PROVE  over[e] = IF e \in DOMAIN ops THEN Over(pending, under)[e] ELSE d.model[e]
  <2>1. e \notin DOMAIN ops => under[e] = d.model[e]
    <3>1. e \in DOMAIN d.model
      BY <1>2 DEF Doc
    <3> QED
      BY <3>1, AtopAt
  <2> HIDE DEF kept, under
  <2>2. over[e] = IF e \in DOMAIN kept /\ (under[e] # Gone \/ e \in Fresh) THEN kept[e] ELSE under[e]
    BY OverAt
  <2>3. Over(pending, under)[e] = IF e \in DOMAIN pending /\ (under[e] # Gone \/ e \in Fresh) THEN pending[e] ELSE under[e]
    BY OverAt
  <2> HIDE DEF over
  <2> QED
    BY <1>5, <2>1, <2>2, <2>3
<1> HIDE DEF kept, under
<1>7. over \in Doc
  BY <1>3, <1>4, OverDoc
<1> HIDE DEF over
<1>8. told \in BOOLEAN
  BY CanvasParts
<1> HIDE DEF told
<1>9. /\ seen \in Canvases /\ seen.preview = d.preview /\ seen.overtaken = told /\ seen.selection = d.selection
      /\ seen.own = d.own
  BY <1>8 DEF Canvases
<1> HIDE DEF seen
<1>10. t = Write(seen, over)
  BY DEF Take, over, kept, under, pending, seen, told
<1> HIDE DEF t
<1>11. /\ t.model = over /\ t.preview = d.preview /\ t.selection \subseteq Alive(over) /\ t.overtaken = told
       /\ t.own = d.own
  BY <1>7, <1>9, <1>10, WritePrunes
<1>12. Took(own, ops, d.model, over)
  BY <1>6, <1>7 DEF Took, pending, under
<1> QED
  BY <1>11, <1>12 DEF t, told

\* The selection holds nothing that is gone, and what was deleted here stays so.
LEMMA TookDeletes ==
    ASSUME NEW own \in Seq(Request), Clean(own), NEW ops, NEW model, NEW next,
           Took(own, ops, model, next), DeletesShown(own, model)
    PROVE  DeletesShown(own, next)
<1> SUFFICES ASSUME NEW i \in 1 .. Len(own), NEW e \in Entities, Deletes(own[i], e)
             PROVE  next[e] = Gone
  BY DEF DeletesShown
<1>1. model[e] = Gone
  BY DEF DeletesShown
<1>2. e \in DOMAIN PendingOps(own) /\ PendingOps(own)[e] = Gone
  BY PendingDeletes
<1>3. Over(PendingOps(own), Atop(ops, model))[e] = Gone
  BY <1>2, OverAt
<1> QED
  BY <1>1, <1>3 DEF Took

\* Another's ops.
LEMMA TookShows ==
    ASSUME NEW own \in Seq(Request), NEW ops, NEW model, NEW next, NEW doc \in Doc,
           Took(own, ops, model, next), Shows(own, model, doc)
    PROVE  Shows(own, next, Atop(ops, doc))
<1> SUFFICES ASSUME NEW e \in Entities \ LeftBy(own)
             PROVE  next[e] = Over(PendingOps(own), Atop(ops, doc))[e]
  BY DEF Shows
<1> DEFINE P == PendingOps(own)
           A == Atop(ops, doc)
           B == Atop(ops, model)
<1>1. model[e] = Over(P, doc)[e] /\ e \in DOMAIN doc
  BY DEF Shows, Doc
<1>2. e \in DOMAIN ops => A[e] = ops[e] /\ B[e] = ops[e]
  BY AtopAt
<1>3. e \notin DOMAIN ops => A[e] = doc[e]
  BY <1>1, AtopAt
<1>4. next[e] = IF e \in DOMAIN ops THEN Over(P, B)[e] ELSE model[e]
  BY DEF Took
<1> HIDE DEF P, A, B
<1>5. /\ Over(P, A)[e] = IF e \in DOMAIN P /\ (A[e] # Gone \/ e \in Fresh) THEN P[e] ELSE A[e]
      /\ Over(P, B)[e] = IF e \in DOMAIN P /\ (B[e] # Gone \/ e \in Fresh) THEN P[e] ELSE B[e]
      /\ Over(P, doc)[e] = IF e \in DOMAIN P /\ (doc[e] # Gone \/ e \in Fresh) THEN P[e] ELSE doc[e]
  BY OverAt
<1>6. next[e] = Over(P, A)[e]
  BY <1>1, <1>2, <1>3, <1>4, <1>5
<1> QED
  BY <1>6 DEF P, A

-----------------------------------------------------------------------------
(* Requests that an answer takes off                                        *)

\* No request of these names the entity.
Untouched(own, e) == \A i \in 1 .. Len(own) : e \notin DOMAIN own[i].ops

\* Some of the requests, in their order.
Part(less, own) ==
    /\ less \in Seq(Request)
    /\ \E f \in [1 .. Len(less) -> 1 .. Len(own)] :
          /\ \A i \in 1 .. Len(less) : less[i] = own[f[i]]
          /\ \A i, j \in 1 .. Len(less) : i < j => f[i] < f[j]

LEMMA PartKeeps ==
    ASSUME NEW own \in Seq(Request), NEW less, Part(less, own)
    PROVE  /\ Clean(own) => Clean(less)
           /\ \A model : DeletesShown(own, model) => DeletesShown(less, model)
           /\ \A e : Untouched(own, e) => Untouched(less, e)
           /\ LeftBy(less) \subseteq LeftBy(own)
<1>1. PICK f \in [1 .. Len(less) -> 1 .. Len(own)] :
          /\ \A i \in 1 .. Len(less) : less[i] = own[f[i]]
          /\ \A i, j \in 1 .. Len(less) : i < j => f[i] < f[j]
  BY DEF Part
<1>2. \A i \in 1 .. Len(less) : f[i] \in 1 .. Len(own)
  BY <1>1
<1>3. ASSUME Clean(own)
      PROVE  Clean(less)
  <2>1. \A i \in 1 .. Len(less) : Proper(less[i])
    BY <1>1, <1>2, <1>3, Zenon DEF Clean
  <2>2. ASSUME NEW i \in 1 .. Len(less), NEW j \in 1 .. Len(less), i < j
        PROVE  /\ \A e \in DOMAIN less[j].applied : Deletes(less[i], e) => less[j].applied[e] = Gone
               /\ less[j].left \cap DOMAIN less[i].ops = {}
    <3>1. f[i] < f[j] /\ less[i] = own[f[i]] /\ less[j] = own[f[j]]
      BY <1>1, <2>2
    <3> QED
      BY <1>2, <1>3, <3>1 DEF Clean
  <2> QED
    BY <2>1, <2>2 DEF Clean
<1> QED
  BY <1>1, <1>2, <1>3, Zenon DEF DeletesShown, Untouched, LeftBy

LEMMA TailIs ==
    ASSUME NEW own \in Seq(Request), own # << >>
    PROVE  /\ Tail(own) \in Seq(Request) /\ Len(Tail(own)) \in Nat /\ Len(own) = Len(Tail(own)) + 1
           /\ \A i \in 1 .. Len(Tail(own)) : i + 1 \in 1 .. Len(own) /\ Tail(own)[i] = own[i + 1]
           /\ 1 \in 1 .. Len(own) /\ Head(own) = own[1]
  OBVIOUS

LEMMA TailPart ==
    ASSUME NEW own \in Seq(Request), own # << >>
    PROVE  Part(Tail(own), own)
<1> DEFINE f == [i \in 1 .. Len(Tail(own)) |-> i + 1]
<1>1. Tail(own) \in Seq(Request) /\ \A i \in 1 .. Len(Tail(own)) : i + 1 \in 1 .. Len(own) /\ Tail(own)[i] = own[i + 1]
  BY TailIs
<1>2. /\ f \in [1 .. Len(Tail(own)) -> 1 .. Len(own)]
      /\ \A i \in 1 .. Len(Tail(own)) : Tail(own)[i] = own[f[i]]
      /\ \A i, j \in 1 .. Len(Tail(own)) : i < j => f[i] < f[j]
  BY <1>1
<1> HIDE DEF f
<1> QED
  BY <1>1, <1>2 DEF Part

LEMMA RemoveIs ==
    ASSUME NEW own \in Seq(Request), NEW k \in 1 .. Len(own)
    PROVE  /\ RemoveAt(own, k) \in Seq(Request) /\ Len(RemoveAt(own, k)) = Len(own) - 1
           /\ \A i \in 1 .. Len(own) - 1 : RemoveAt(own, k)[i] = own[IF i < k THEN i ELSE i + 1]
<1> DEFINE before == SubSeq(own, 1, k - 1)
           after == SubSeq(own, k + 1, Len(own))
<1>1. Len(own) \in Nat
  OBVIOUS
<1>2. before \in Seq(Request) /\ Len(before) = k - 1 /\ \A i \in 1 .. k - 1 : before[i] = own[i]
  BY <1>1, SubSeqProperties
<1>3. /\ after \in Seq(Request) /\ Len(after) = Len(own) - k
      /\ \A i \in 1 .. Len(own) - k : after[i] = own[k + i]
  <2>1. /\ after \in Seq(Request)
        /\ Len(after) = IF k + 1 <= Len(own) THEN Len(own) - (k + 1) + 1 ELSE 0
        /\ \A i \in 1 .. (Len(own) - (k + 1) + 1) : after[i] = own[(k + 1) + i - 1]
    BY <1>1, SubSeqProperties
  <2>2. \A i \in 1 .. Len(own) - k : i \in 1 .. (Len(own) - (k + 1) + 1) /\ (k + 1) + i - 1 = k + i
    BY <1>1
  <2>3. Len(after) = Len(own) - k
    <3> HIDE DEF after
    <3> QED
      BY <1>1, <2>1
  <2> QED
    BY <2>1, <2>2, <2>3
<1>4. RemoveAt(own, k) = before \o after
  BY DEF RemoveAt
<1> HIDE DEF before, after
<1> DEFINE less == before \o after
<1>5. /\ less \in Seq(Request) /\ Len(less) = Len(before) + Len(after)
      /\ \A i \in 1 .. Len(before) + Len(after) : less[i] = IF i <= Len(before) THEN before[i] ELSE after[i - Len(before)]
  BY <1>2, <1>3, ConcatProperties
<1> HIDE DEF less
<1>6. Len(less) = Len(own) - 1
  BY <1>1, <1>2, <1>3, <1>5
<1>7. ASSUME NEW i \in 1 .. Len(own) - 1
      PROVE  less[i] = own[IF i < k THEN i ELSE i + 1]
  <2>1. i \in 1 .. Len(before) + Len(after)
    BY <1>1, <1>2, <1>3
  <2>2. CASE i < k
    <3>1. i \in 1 .. k - 1 /\ i <= Len(before)
      BY <1>2, <2>2
    <3> QED
      BY <1>2, <1>5, <2>1, <2>2, <3>1
  <2>3. CASE ~(i < k)
    <3>1. i - (k - 1) \in 1 .. Len(own) - k /\ k + (i - (k - 1)) = i + 1 /\ ~(i <= Len(before))
      BY <1>1, <1>2, <2>3
    <3>2. less[i] = after[i - (k - 1)]
      BY <1>2, <1>5, <2>1, <3>1
    <3> QED
      BY <1>3, <2>3, <3>1, <3>2
  <2> QED
    BY <2>2, <2>3
<1> QED
  BY <1>4, <1>5, <1>6, <1>7 DEF less

LEMMA RemovePart ==
    ASSUME NEW own \in Seq(Request), NEW k \in 1 .. Len(own)
    PROVE  Part(RemoveAt(own, k), own)
<1> DEFINE less == RemoveAt(own, k)
           f == [i \in 1 .. Len(less) |-> IF i < k THEN i ELSE i + 1]
<1>1. /\ less \in Seq(Request) /\ Len(less) = Len(own) - 1
      /\ \A i \in 1 .. Len(own) - 1 : less[i] = own[IF i < k THEN i ELSE i + 1]
  BY RemoveIs
<1>2. Len(own) \in Nat
  OBVIOUS
<1> HIDE DEF less
<1>3. f \in [1 .. Len(less) -> 1 .. Len(own)]
  BY <1>1, <1>2
<1>4. /\ \A i \in 1 .. Len(less) : less[i] = own[f[i]]
      /\ \A i, j \in 1 .. Len(less) : i < j => f[i] < f[j]
  BY <1>1, <1>2
<1> HIDE DEF f
<1>5. Part(less, own)
  BY <1>1, <1>3, <1>4 DEF Part
<1> QED
  BY <1>5 DEF less

\* What is pending is what the first request says, under what the others say.
LEMMA PendingTail ==
    ASSUME NEW own \in Seq(Request), own # << >>, NEW e
    PROVE  LET P == PendingOps(own)
               R == PendingOps(Tail(own))
               h == own[1].applied
           IN  /\ e \in DOMAIN P <=> e \in DOMAIN R \/ e \in DOMAIN h
               /\ e \in DOMAIN R => P[e] = R[e]
               /\ e \in DOMAIN h /\ e \notin DOMAIN R => P[e] = h[e]
<1> DEFINE rest == Tail(own)
           n == Len(rest)
           P == PendingOps(own)
           R == PendingOps(rest)
<1>1. /\ rest \in Seq(Request) /\ n \in Nat /\ Len(own) = n + 1
      /\ \A i \in 1 .. n : i + 1 \in 1 .. n + 1 /\ rest[i] = own[i + 1]
  BY TailIs
<1>2. Sums(own, n + 1, e, P)
  BY <1>1, PendingIs
<1> HIDE DEF rest
<1>3. Sums(rest, n, e, R)
  BY <1>1, PendingIs
<1> HIDE DEF P, R, n
<1>4. \A i \in 1 .. n + 1 : i = 1 \/ (i - 1 \in 1 .. n /\ (i - 1) + 1 = i)
  BY <1>1
<1>5. 1 \in 1 .. n + 1
  BY <1>1
<1>6. e \in DOMAIN P <=> e \in DOMAIN R \/ e \in DOMAIN own[1].applied
  BY <1>1, <1>2, <1>3, <1>4, <1>5 DEF Sums
<1>7. ASSUME NEW i \in 1 .. n, Latest(rest, n, e, i)
      PROVE  Latest(own, n + 1, e, i + 1)
  <2> SUFFICES ASSUME NEW j \in (i + 1) + 1 .. n + 1 PROVE e \notin DOMAIN own[j].applied
    BY <1>1, <1>7 DEF Latest
  <2>1. j - 1 \in i + 1 .. n /\ j - 1 \in 1 .. n /\ (j - 1) + 1 = j
    BY <1>1
  <2>2. own[j] = rest[j - 1]
    BY <1>1, <2>1
  <2> QED
    BY <1>7, <2>1, <2>2 DEF Latest
<1>8. ASSUME e \in DOMAIN R
      PROVE  P[e] = R[e]
  <2>1. PICK i \in 1 .. n : Latest(rest, n, e, i)
    BY <1>3, <1>8 DEF Sums
  <2>2. R[e] = rest[i].applied[e] /\ rest[i] = own[i + 1] /\ i + 1 \in 1 .. n + 1
    BY <1>1, <1>3, <2>1 DEF Sums
  <2>3. P[e] = own[i + 1].applied[e]
    BY <1>2, <1>7, <2>1, <2>2 DEF Sums
  <2> QED
    BY <2>2, <2>3
<1>9. ASSUME e \in DOMAIN own[1].applied, e \notin DOMAIN R
      PROVE  P[e] = own[1].applied[e]
  <2>1. Latest(own, n + 1, e, 1)
    <3> SUFFICES ASSUME NEW j \in 1 + 1 .. n + 1 PROVE e \notin DOMAIN own[j].applied
      BY <1>5, <1>9 DEF Latest
    <3>1. j - 1 \in 1 .. n /\ (j - 1) + 1 = j
      BY <1>1
    <3>2. own[j] = rest[j - 1]
      BY <1>1, <3>1
    <3> QED
      BY <1>3, <1>9, <3>1, <3>2 DEF Sums
  <2> QED
    BY <1>2, <1>5, <2>1 DEF Sums
<1> QED
  BY <1>6, <1>8, <1>9 DEF P, R, rest

-----------------------------------------------------------------------------
(* Answers, changes and snapshots                                           *)

\* What an answer says beyond the request it answers, the first of these.
Derived(own, ops) == {e \in DOMAIN ops : ~(e \in DOMAIN own[1].applied /\ own[1].applied[e] = ops[e])}

LEMMA AckShows ==
    ASSUME NEW own \in Seq(Request), own # << >>, Clean(own), NEW doc \in Doc, NEW ops \in Ops,
           NEW new, new = Atop(ops, doc), own[1].left \subseteq DOMAIN ops,
           own[1].applied = Nothing \/ new = Over(own[1].applied, doc),
           NEW model, NEW next, Took(Tail(own), Restrict(ops, Derived(own, ops)), model, next),
           Shows(own, model, doc)
    PROVE  Shows(Tail(own), next, new)
<1> SUFFICES ASSUME NEW e \in Entities \ LeftBy(Tail(own))
             PROVE  next[e] = Over(PendingOps(Tail(own)), new)[e]
  BY DEF Shows
<1> DEFINE rest == Tail(own)
           h == own[1].applied
           P == PendingOps(own)
           R == PendingOps(rest)
           D == Derived(own, ops)
           some == Restrict(ops, D)
           B == Atop(some, model)
<1>1. /\ rest \in Seq(Request) /\ Len(rest) \in Nat /\ Len(own) = Len(rest) + 1
      /\ \A i \in 1 .. Len(rest) : i + 1 \in 1 .. Len(own) /\ rest[i] = own[i + 1]
      /\ 1 \in 1 .. Len(own)
  BY TailIs
<1>2. e \in LeftBy(own) => e \in own[1].left
  <2> SUFFICES ASSUME NEW i \in 1 .. Len(own), e \in own[i].left, i # 1 PROVE FALSE
    BY DEF LeftBy
  <2>1. i - 1 \in 1 .. Len(rest) /\ rest[i - 1] = own[i]
    BY <1>1
  <2> QED
    BY <2>1 DEF LeftBy
<1>3. /\ e \in DOMAIN P <=> e \in DOMAIN R \/ e \in DOMAIN h
      /\ e \in DOMAIN R => P[e] = R[e]
      /\ e \in DOMAIN h /\ e \notin DOMAIN R => P[e] = h[e]
  BY PendingTail
<1>4. next[e] = IF e \in D THEN Over(R, B)[e] ELSE model[e]
  <2>1. DOMAIN some = D
    BY RestrictAt
  <2> QED
    BY <2>1 DEF Took
<1>5. e \in D => B[e] = ops[e]
  BY AtopAt, RestrictAt
<1>6. e \in DOMAIN ops => new[e] = ops[e]
  BY AtopAt
<1>7. e \notin DOMAIN ops => new[e] = doc[e]
  <2>1. e \in DOMAIN doc
    BY DEF Doc
  <2> QED
    BY <2>1, AtopAt
<1>8. e \in D <=> e \in DOMAIN ops /\ ~(e \in DOMAIN h /\ h[e] = ops[e])
  BY DEF Derived
<1>9. e \in DOMAIN h => new[e] = IF doc[e] # Gone \/ e \in Fresh THEN h[e] ELSE doc[e]
  <2>1. DOMAIN Nothing = {}
    BY DEF Nothing
  <2> QED
    BY <2>1, OverAt
<1>10. e \in own[1].left => e \in D
  <2>1. Proper(own[1])
    BY <1>1 DEF Clean
  <2>2. e \in own[1].left => h = Nothing
    BY <2>1 DEF Proper
  <2>3. DOMAIN Nothing = {}
    BY DEF Nothing
  <2> QED
    BY <1>8, <2>2, <2>3
<1>11. e \notin LeftBy(own) => model[e] = Over(P, doc)[e]
  BY DEF Shows
<1>12. ASSUME e \in DOMAIN h, e \in DOMAIN R, h[e] = Gone
       PROVE  R[e] = Gone
  <2>1. Deletes(own[1], e)
    BY <1>12 DEF Deletes
  <2>2. e \in DOMAIN P /\ P[e] = Gone
    BY <1>1, <2>1, PendingDeletes
  <2> QED
    BY <1>3, <1>12, <2>2
<1> HIDE DEF P, R, B, D, h, rest, some
<1>13. /\ Over(R, new)[e] = IF e \in DOMAIN R /\ (new[e] # Gone \/ e \in Fresh) THEN R[e] ELSE new[e]
       /\ Over(R, B)[e] = IF e \in DOMAIN R /\ (B[e] # Gone \/ e \in Fresh) THEN R[e] ELSE B[e]
       /\ Over(P, doc)[e] = IF e \in DOMAIN P /\ (doc[e] # Gone \/ e \in Fresh) THEN P[e] ELSE doc[e]
  BY OverAt
<1>14. CASE e \in D
  BY <1>4, <1>5, <1>6, <1>8, <1>13, <1>14 DEF R, rest
<1>15. CASE e \notin D
  <2>1. next[e] = Over(P, doc)[e]
    BY <1>2, <1>4, <1>10, <1>11, <1>15
  <2>2. Over(P, doc)[e] = Over(R, new)[e]
    <3>1. CASE e \in DOMAIN R /\ e \in DOMAIN h
      BY <1>3, <1>9, <1>12, <1>13, <3>1
    <3>2. CASE e \in DOMAIN R /\ e \notin DOMAIN h
      BY <1>3, <1>7, <1>8, <1>13, <1>15, <3>2
    <3>3. CASE e \notin DOMAIN R /\ e \in DOMAIN h
      BY <1>3, <1>9, <1>13, <3>3
    <3>4. CASE e \notin DOMAIN R /\ e \notin DOMAIN h
      BY <1>3, <1>7, <1>8, <1>13, <1>15, <3>4
    <3> QED
      BY <3>1, <3>2, <3>3, <3>4
  <2> QED
    BY <2>1, <2>2 DEF R, rest
<1> QED
  BY <1>14, <1>15

\* A document with what is pending over it shows what was deleted here.
LEMMA OverShows ==
    ASSUME NEW own \in Seq(Request), Clean(own), NEW doc \in Doc
    PROVE  Shows(own, Reapplied(own, doc), doc) /\ DeletesShown(own, Reapplied(own, doc))
<1>1. Reapplied(own, doc) = Over(PendingOps(own), doc)
  BY ReappliedIs
<1>2. ASSUME NEW i \in 1 .. Len(own), NEW e \in Entities, Deletes(own[i], e)
      PROVE  Over(PendingOps(own), doc)[e] = Gone
  <2>1. e \in DOMAIN PendingOps(own) /\ PendingOps(own)[e] = Gone
    BY <1>2, PendingDeletes
  <2> QED
    BY <2>1, OverAt
<1> QED
  BY <1>1, <1>2 DEF Shows, DeletesShown

LEMMA AckTakes ==
    ASSUME NEW d \in Canvases, NEW m \in Message, m.cmd = "ack", d.own # << >>
    PROVE  LET e == ApplyAck(d, m)
               ops == Restrict(m.ops, Derived(d.own, m.ops))
           IN  /\ e.own = Tail(d.own) /\ e.preview = d.preview
               /\ Took(Tail(d.own), ops, d.model, e.model) /\ e.selection \subseteq Alive(e.model)
               /\ e.overtaken = (d.overtaken \/ (d.live.name = "handle" /\ d.live.of \in DOMAIN ops))
<1> DEFINE own == Tail(d.own)
           ops == Restrict(m.ops, Derived(d.own, m.ops))
           rest == [d EXCEPT !.own = Tail(@)]
           e == ApplyAck(d, m)
<1>1. m.ops \in Ops /\ d.own \in Seq(Request)
  BY MessageParts, CanvasParts
<1>2. own \in Seq(Request) /\ Head(d.own) = d.own[1]
  BY <1>1, TailIs
<1>3. /\ rest \in Canvases /\ rest.own = own /\ rest.model = d.model /\ rest.preview = d.preview
      /\ rest.live = d.live /\ rest.overtaken = d.overtaken
  BY <1>2 DEF Canvases
<1>4. e = Take(rest, ops, own)
  BY <1>2 DEF ApplyAck, Derived
<1>5. ops \in Ops
  BY <1>1, RestrictedOps DEF Derived
<1> HIDE DEF rest, ops, own, e
<1> DEFINE t == Take(rest, ops, own)
<1>6. /\ Took(own, ops, rest.model, t.model) /\ t.selection \subseteq Alive(t.model) /\ t.preview = rest.preview
      /\ t.own = rest.own
      /\ t.overtaken = (rest.overtaken \/ (rest.live.name = "handle" /\ rest.live.of \in DOMAIN ops))
  BY <1>2, <1>3, <1>5, TakeTakes
<1> HIDE DEF t
<1>7. e = t
  BY <1>4 DEF t
<1> QED
  BY <1>3, <1>6, <1>7 DEF own, ops, e

LEMMA ChangeTakes ==
    ASSUME NEW d \in Canvases, NEW m \in Message, m.cmd = "change"
    PROVE  LET e == ApplyChange(d, m) IN
           /\ e.own = d.own /\ e.preview = d.preview
           /\ Took(d.own, m.ops, d.model, e.model) /\ e.selection \subseteq Alive(e.model)
<1>1. m.ops \in Ops /\ d.own \in Seq(Request)
  BY MessageParts, CanvasParts
<1> DEFINE own == d.own
           t == Take(d, m.ops, own)
<1>2. own \in Seq(Request)
  BY <1>1
<1> HIDE DEF own
<1>3. /\ Took(own, m.ops, d.model, t.model) /\ t.selection \subseteq Alive(t.model) /\ t.preview = d.preview
      /\ t.own = d.own
  BY <1>1, <1>2, TakeTakes
<1>4. ApplyChange(d, m) = t
  BY DEF ApplyChange, own
<1> HIDE DEF t
<1> QED
  BY <1>3, <1>4 DEF own

LEMMA LoadTakes ==
    ASSUME NEW d \in Canvases, NEW m \in Message, m.cmd = "snapshot"
    PROVE  LET e == Load(d, m) IN
           /\ e.own = d.own /\ e.preview = d.preview
           /\ e.model = Reapplied(d.own, m.doc) /\ e.selection \subseteq Alive(e.model)
<1> DEFINE idle == [d EXCEPT !.live = Idle]
           doc == Reapplied(d.own, m.doc)
           e == Load(d, m)
<1>1. m.doc \in Doc /\ d.own \in Seq(Request)
  BY MessageParts, CanvasParts
<1>2. doc \in Doc
  BY <1>1, ReplayedTyped
<1>3. idle \in Canvases /\ idle.own = d.own /\ idle.preview = d.preview
  BY IdleLive DEF Canvases
<1>4. e = Write(idle, doc)
  BY DEF Load
<1> HIDE DEF idle, doc, e
<1>5. e.model = doc /\ e.preview = idle.preview /\ e.own = idle.own /\ e.selection = idle.selection \cap Alive(doc)
  BY <1>2, <1>3, <1>4, WritePrunes
<1> QED
  BY <1>3, <1>5 DEF e, doc

-----------------------------------------------------------------------------
(* What waits leads from the document shown to the server's                 *)

\* How many of the first i messages are answers: the i-th, if one, answers that request.
Nth(msgs, i) == Cardinality(Answers(msgs, i))

\* A message takes one document of the server's to the next.
Told(own, m, j, old, new) ==
    IF m.cmd = "snapshot" THEN new = m.doc
    ELSE /\ new = Atop(m.ops, old)
         /\ m.cmd = "ack" => /\ own[j].left \subseteq DOMAIN m.ops
                             /\ own[j].applied = Nothing \/ new = Over(own[j].applied, old)

Leads(own, msgs, b, s) ==
    /\ b \in [0 .. Len(msgs) -> Doc] /\ b[Len(msgs)] = s
    /\ \A i \in 1 .. Len(msgs) : Told(own, msgs[i], Nth(msgs, i), b[i - 1], b[i])

\* The canvas shows the document that what waits starts from, unless a snapshot waits. What
\* the tab's planner refused and the server has yet to answer is not stored.
Right(own, msgs, model, s) ==
    /\ Clean(own) /\ DeletesShown(own, model)
    /\ \A j \in Nth(msgs, Len(msgs)) + 1 .. Len(own) : \A e \in own[j].left : s[e] = Gone
    /\ \E b : Leads(own, msgs, b, s) /\ (Outlived(msgs, 0) \/ Shows(own, model, b[0]))

Fit(d, s) == Right(d.own, d.deferred, d.model, s) /\ d.selection \subseteq Alive(d.model)

LEMMA NoneWaits ==
    /\ Len(<< >>) = 0 /\ Nth(<< >>, 0) = 0 /\ ~Outlived(<< >>, 0)
<1>1. Len(<< >>) = 0
  OBVIOUS
<1>2. Nth(<< >>, 0) = 0
  BY AnswersCounted DEF Nth
<1> QED
  BY <1>1, <1>2 DEF Outlived

LEMMA RightEmpty ==
    ASSUME NEW own \in Seq(Request), NEW model, NEW s \in Doc
    PROVE  Right(own, << >>, model, s) <=>
             /\ Clean(own) /\ DeletesShown(own, model) /\ Shows(own, model, s)
             /\ \A j \in 1 .. Len(own) : \A e \in own[j].left : s[e] = Gone
<1> DEFINE base == [i \in 0 .. 0 |-> s]
<1>1. Leads(own, << >>, base, s) /\ base[0] = s
  BY NoneWaits DEF Leads
<1> HIDE DEF base
<1>2. \A b : Leads(own, << >>, b, s) => b[0] = s
  BY NoneWaits DEF Leads
<1> QED
  BY <1>1, <1>2, NoneWaits DEF Right

\* After the first k of what was held.
Shown(d, b, t, k) ==
    /\ Clean(t.own) /\ DeletesShown(t.own, t.model)
    /\ t.selection \subseteq Alive(t.model) /\ t.preview = d.preview
    /\ \A j \in 1 .. Len(t.own) : t.own[j] = d.own[Nth(d.deferred, k) + j]
    /\ Outlived(d.deferred, k) \/ Shows(t.own, t.model, b[k])

LEMMA OutlivedNext ==
    ASSUME NEW msgs \in Seq(Message), NEW k \in Nat, k + 1 <= Len(msgs)
    PROVE  Outlived(msgs, k) <=> Outlived(msgs, k + 1) \/ msgs[k + 1].cmd = "snapshot"
<1>1. Len(msgs) \in Nat
  OBVIOUS
<1>2. \A j : j \in k + 1 .. Len(msgs) <=> j = k + 1 \/ j \in (k + 1) + 1 .. Len(msgs)
  BY <1>1
<1> QED
  BY <1>2 DEF Outlived

LEMMA TakeHeldShows ==
    ASSUME NEW d \in Canvases, NEW b, NEW s, Leads(d.own, d.deferred, b, s),
           NEW k \in Nat, k + 1 <= Len(d.deferred), NEW t \in Canvases,
           d.deferred[k + 1].cmd = "ack" => t.own # << >>,
           Shown(d, b, t, k)
    PROVE  Shown(d, b, TakeHeld(t, d.deferred, k + 1), k + 1)
<1> DEFINE msgs == d.deferred
           m == msgs[k + 1]
           e == TakeHeld(t, msgs, k + 1)
           old == b[k]
           new == b[k + 1]
           n == Nth(msgs, k)
           o == Nth(msgs, k + 1)
<1>0. msgs \in Seq(Message) /\ Len(msgs) \in Nat /\ t.own \in Seq(Request) /\ d.own \in Seq(Request)
  BY CanvasParts, LenProperties
<1>1. /\ k + 1 \in 1 .. Len(msgs) /\ (k + 1) - 1 = k /\ k \in 0 .. Len(msgs) /\ k + 1 \in 0 .. Len(msgs)
      /\ m \in Message
  BY <1>0
<1>2. old \in Doc /\ new \in Doc /\ Told(d.own, m, o, old, new)
  BY <1>1 DEF Leads
<1>3. Outlived(msgs, k) <=> Outlived(msgs, k + 1) \/ m.cmd = "snapshot"
  BY <1>0, OutlivedNext
<1>4. n \in Nat /\ o = n + (IF m.cmd = "ack" THEN 1 ELSE 0)
  BY AnswersCounted DEF Nth
<1>5. /\ Clean(t.own) /\ DeletesShown(t.own, t.model)
      /\ t.selection \subseteq Alive(t.model) /\ t.preview = d.preview
      /\ \A j \in 1 .. Len(t.own) : t.own[j] = d.own[n + j]
      /\ Outlived(msgs, k) \/ Shows(t.own, t.model, old)
  BY DEF Shown
<1>6. m.cmd \in {"change", "ack", "snapshot"} /\ (m.cmd \in {"change", "ack"} => m.ops \in Ops)
      /\ (m.cmd = "snapshot" => m.doc \in Doc)
  BY <1>1, MessageParts
<1>7. CASE m.cmd = "ack"
  <2>0. t.own # << >> /\ o = n + 1
    BY <1>4, <1>7
  <2>1. e = ApplyAck(t, m)
    BY <1>7 DEF TakeHeld
  <2> DEFINE ops == Restrict(m.ops, Derived(t.own, m.ops))
             a == ApplyAck(t, m)
  <2>2. /\ a.own = Tail(t.own) /\ a.preview = t.preview
        /\ Took(Tail(t.own), ops, t.model, a.model) /\ a.selection \subseteq Alive(a.model)
    BY <1>1, <1>7, <2>0, AckTakes
  <2> HIDE DEF a, e, m, n, o, old, new, msgs
  <2>3. /\ Tail(t.own) \in Seq(Request) /\ Len(t.own) = Len(Tail(t.own)) + 1 /\ Len(Tail(t.own)) \in Nat
        /\ \A i \in 1 .. Len(Tail(t.own)) : i + 1 \in 1 .. Len(t.own) /\ Tail(t.own)[i] = t.own[i + 1]
        /\ 1 \in 1 .. Len(t.own)
    BY <1>0, <2>0, TailIs
  <2>4. t.own[1] = d.own[o]
    BY <1>5, <2>0, <2>3
  <2>5. /\ new = Atop(m.ops, old) /\ t.own[1].left \subseteq DOMAIN m.ops
        /\ t.own[1].applied = Nothing \/ new = Over(t.own[1].applied, old)
    BY <1>2, <1>7, <2>4 DEF Told
  <2>6. Clean(Tail(t.own)) /\ DeletesShown(Tail(t.own), t.model)
    BY <1>0, <1>5, <2>0, TailPart, PartKeeps
  <2>7. DeletesShown(Tail(t.own), a.model)
    BY <2>2, <2>3, <2>6, TookDeletes
  <2>8. Shows(t.own, t.model, old) => Shows(Tail(t.own), a.model, new)
    <3> DEFINE own == t.own
               model == t.model
               next == a.model
    <3>1. own \in Seq(Request) /\ own # << >> /\ Clean(own) /\ m.ops \in Ops
      BY <1>0, <1>5, <1>6, <1>7, <2>0
    <3>2. own[1].left \subseteq DOMAIN m.ops /\ (own[1].applied = Nothing \/ new = Over(own[1].applied, old))
      BY <2>5
    <3>3. Took(Tail(own), Restrict(m.ops, Derived(own, m.ops)), model, next)
      BY <2>2
    <3>4. new = Atop(m.ops, old)
      BY <2>5
    <3>5. SUFFICES ASSUME Shows(own, model, old) PROVE Shows(Tail(own), next, new)
      OBVIOUS
    <3> HIDE DEF own, model, next
    <3> QED
      BY <1>2, <3>1, <3>2, <3>3, <3>4, <3>5, AckShows
  <2>9. \A j \in 1 .. Len(a.own) : a.own[j] = d.own[o + j]
    <3> SUFFICES ASSUME NEW j \in 1 .. Len(Tail(t.own)) PROVE Tail(t.own)[j] = d.own[o + j]
      BY <2>2
    <3>1. n + (j + 1) = o + j
      BY <1>4, <2>0
    <3> QED
      BY <1>5, <2>3, <3>1
  <2>10. Outlived(msgs, k + 1) \/ Shows(a.own, a.model, new)
    BY <1>3, <1>5, <1>7, <2>2, <2>8
  <2>11. Shown(d, b, a, k + 1)
    BY <1>5, <2>2, <2>6, <2>7, <2>9, <2>10 DEF Shown, o, new, msgs
  <2> QED
    BY <2>1, <2>11 DEF a, e, m, msgs
<1>8. CASE m.cmd = "change" /\ ~Outlived(msgs, k + 1)
  <2>1. e = ApplyChange(t, m)
    BY <1>8 DEF TakeHeld
  <2> DEFINE a == ApplyChange(t, m)
  <2>2. /\ a.own = t.own /\ a.preview = t.preview
        /\ Took(t.own, m.ops, t.model, a.model) /\ a.selection \subseteq Alive(a.model)
    BY <1>1, <1>8, ChangeTakes
  <2> HIDE DEF a, e, m, n, o, old, new, msgs
  <2>3. new = Atop(m.ops, old)
    BY <1>2, <1>8 DEF Told
  <2>4. DeletesShown(t.own, a.model)
    BY <1>0, <1>5, <2>2, TookDeletes
  <2>5. Shows(t.own, a.model, new)
    BY <1>0, <1>2, <1>3, <1>5, <1>8, <2>2, <2>3, TookShows
  <2>6. o = n
    BY <1>4, <1>8
  <2>7. Shown(d, b, a, k + 1)
    BY <1>5, <2>2, <2>4, <2>5, <2>6 DEF Shown, n, o, new, msgs
  <2> QED
    BY <2>1, <2>7 DEF a, e, m, msgs
<1>9. CASE m.cmd = "snapshot" /\ ~Outlived(msgs, k + 1)
  <2>1. e = Load(t, m)
    BY <1>9 DEF TakeHeld
  <2> DEFINE a == Load(t, m)
  <2>2. /\ a.own = t.own /\ a.preview = t.preview
        /\ a.model = Reapplied(t.own, m.doc) /\ a.selection \subseteq Alive(a.model)
    BY <1>1, <1>9, LoadTakes
  <2> HIDE DEF a, e, m, n, o, old, new, msgs
  <2>3. new = m.doc
    BY <1>2, <1>9 DEF Told
  <2>4. Shows(t.own, a.model, new) /\ DeletesShown(t.own, a.model)
    BY <1>0, <1>2, <1>5, <2>2, <2>3, OverShows
  <2>5. o = n
    BY <1>4, <1>9
  <2>6. Shown(d, b, a, k + 1)
    BY <1>5, <2>2, <2>4, <2>5 DEF Shown, n, o, new, msgs
  <2> QED
    BY <2>1, <2>6 DEF a, e, m, msgs
<1>10. CASE m.cmd # "ack" /\ Outlived(msgs, k + 1)
  <2>1. e = t
    BY <1>10 DEF TakeHeld
  <2>2. o = n
    BY <1>4, <1>10
  <2> HIDE DEF e
  <2>3. Shown(d, b, e, k + 1)
    BY <1>5, <1>10, <2>1, <2>2 DEF Shown
  <2> QED
    BY <2>3 DEF e
<1> QED
  BY <1>6, <1>7, <1>8, <1>9, <1>10

LEMMA UnheldShows ==
    ASSUME NEW d \in Canvases, Counted(d), NEW b, NEW s, Leads(d.own, d.deferred, b, s),
           Shown(d, b, [d EXCEPT !.deferred = << >>], 0), NEW last \in 0 .. Len(d.deferred)
    PROVE  Shown(d, b, Unheld(d)[last], last)
<1> DEFINE msgs == d.deferred
           f == Unheld(d)
           T == {k \in Nat : k <= Len(msgs) => Shown(d, b, f[k], k)}
<1>0. /\ msgs \in Seq(Message) /\ Len(msgs) \in Nat
      /\ f[0] = [d EXCEPT !.deferred = << >>]
      /\ \A n \in 1 .. Len(msgs) : f[n] = TakeHeld(f[n - 1], msgs, n)
  BY CanvasParts, WaitingNat, UnheldStep
<1>1. 0 \in T
  BY <1>0
<1>2. ASSUME NEW k \in T
      PROVE  k + 1 \in T
  <2> SUFFICES ASSUME k + 1 <= Len(msgs) PROVE Shown(d, b, f[k + 1], k + 1)
    OBVIOUS
  <2>1. /\ k \in Nat /\ k + 1 \in 1 .. Len(msgs) /\ (k + 1) - 1 = k /\ k <= Len(msgs)
        /\ k \in 0 .. Len(msgs) /\ k + 1 \in 0 .. Len(msgs)
    BY <1>0
  <2>2. Shown(d, b, f[k], k) /\ f[k + 1] = TakeHeld(f[k], msgs, k + 1)
    BY <1>0, <2>1
  <2>3. Released(d, f[k], k)
    BY <2>1, UnheldEach
  <2> HIDE DEF f
  <2>4. PICK t : t = f[k]
    OBVIOUS
  <2>5. t \in Canvases /\ Len(d.own) = Len(t.own) + Nth(msgs, k)
    BY <2>3, <2>4 DEF Released, Nth
  <2>6. ASSUME msgs[k + 1].cmd = "ack"
        PROVE  t.own # << >>
    <3>1. Nth(msgs, k) \in Nat /\ Nth(msgs, k + 1) = Nth(msgs, k) + 1
      BY <2>1, <2>6, AnswersCounted DEF Nth
    <3>2. Nth(msgs, k + 1) <= Nth(msgs, Len(msgs)) /\ Nth(msgs, Len(msgs)) \in Nat
      BY <1>0, <2>1, AnswersWithin, AnswersCounted DEF Nth
    <3>3. Nth(msgs, Len(msgs)) <= Len(d.own)
      BY DEF Counted, Waiting, Nth
    <3>4. Len(t.own) \in Nat /\ Len(d.own) \in Nat
      BY <2>5, WaitingNat
    <3> HIDE DEF msgs
    <3>5. Len(t.own) # 0
      BY <2>5, <3>1, <3>2, <3>3, <3>4
    <3> QED
      BY <3>5
  <2>7. Shown(d, b, TakeHeld(t, msgs, k + 1), k + 1)
    BY <2>1, <2>2, <2>4, <2>5, <2>6, TakeHeldShows
  <2> QED
    BY <2>2, <2>4, <2>7
<1>3. T = Nat
  <2> HIDE DEF T
  <2>1. T \subseteq Nat
    BY DEF T
  <2> QED
    BY <1>1, <1>2, <2>1, NatFromZero
<1>4. last \in T /\ last <= Len(msgs)
  BY <1>0, <1>3
<1> QED
  BY <1>4 DEF f

\* What was held is given to the canvas: it shows the server's document.
LEMMA UnheldFit ==
    ASSUME NEW d \in Canvases, Counted(d), NEW s \in Doc, Fit(d, s)
    PROVE  LET e == Unheld(d)[Len(d.deferred)] IN Fit(e, s) /\ e.preview = d.preview
<1> DEFINE msgs == d.deferred
           n == Len(msgs)
           e == Unheld(d)[n]
           none == [d EXCEPT !.deferred = << >>]
<1>0. n \in Nat /\ n \in 0 .. n /\ d.own \in Seq(Request)
  BY WaitingNat, CanvasParts
<1>1. PICK b : Leads(d.own, msgs, b, s) /\ (Outlived(msgs, 0) \/ Shows(d.own, d.model, b[0]))
  BY DEF Fit, Right
<1>2. none.own = d.own /\ none.model = d.model /\ none.selection = d.selection /\ none.preview = d.preview
  BY DEF Canvases
<1>3. Nth(msgs, 0) = 0 /\ \A j \in 1 .. Len(d.own) : 0 + j = j
  BY AnswersCounted DEF Nth
<1>4. Shown(d, b, none, 0)
  <2> HIDE DEF none
  <2>1. \A j \in 1 .. Len(none.own) : none.own[j] = d.own[Nth(msgs, 0) + j]
    BY <1>2, <1>3
  <2> QED
    BY <1>1, <1>2, <2>1 DEF Shown, Fit, Right
<1>5. Shown(d, b, e, n)
  BY <1>0, <1>1, <1>4, UnheldShows
<1>6. Released(d, e, n)
  BY <1>0, UnheldEach
<1> HIDE DEF e
<1>7. /\ e \in Canvases /\ e.deferred = << >> /\ Len(d.own) = Len(e.own) + Nth(msgs, n)
      /\ e.own \in Seq(Request) /\ Len(e.own) \in Nat /\ Nth(msgs, n) \in Nat
  BY <1>0, <1>6, CanvasParts, WaitingNat, AnswersCounted DEF Released, Nth
<1>8. ~Outlived(msgs, n) /\ b[n] = s
  BY <1>0, <1>1 DEF Outlived, Leads
<1>9. Shows(e.own, e.model, s)
  BY <1>5, <1>8 DEF Shown
<1>10. ASSUME NEW j \in 1 .. Len(e.own), NEW x \in e.own[j].left
       PROVE  s[x] = Gone
  <2>1. e.own[j] = d.own[Nth(msgs, n) + j]
    BY <1>5 DEF Shown
  <2>2. Nth(msgs, n) + j \in Nth(msgs, n) + 1 .. Len(d.own)
    BY <1>7
  <2> QED
    BY <1>10, <2>1, <2>2 DEF Fit, Right
<1>11. Right(e.own, << >>, e.model, s)
  BY <1>5, <1>7, <1>9, <1>10, RightEmpty DEF Shown
<1> QED
  BY <1>5, <1>7, <1>11 DEF Fit, Shown, e

-----------------------------------------------------------------------------
(* One request more, and one message more                                   *)

LEMMA SumsSame ==
    ASSUME NEW own, NEW n, NEW e, NEW P, NEW Q, Sums(own, n, e, P), Sums(own, n, e, Q)
    PROVE  (e \in DOMAIN P <=> e \in DOMAIN Q) /\ (e \in DOMAIN P => P[e] = Q[e])
  BY DEF Sums

LEMMA AppendIs ==
    ASSUME NEW A, NEW s \in Seq(A), NEW x \in A
    PROVE  /\ Append(s, x) \in Seq(A) /\ Len(s) \in Nat /\ Len(Append(s, x)) = Len(s) + 1
           /\ Append(s, x)[Len(s) + 1] = x /\ \A i \in 1 .. Len(s) : Append(s, x)[i] = s[i]
  OBVIOUS

LEMMA PendingAppend ==
    ASSUME NEW own \in Seq(Request), NEW asked \in Request, NEW e
    PROVE  LET P == PendingOps(own)
               Q == PendingOps(Append(own, asked))
           IN  /\ e \in DOMAIN Q <=> e \in DOMAIN asked.applied \/ e \in DOMAIN P
               /\ e \in DOMAIN Q => Q[e] = IF e \in DOMAIN asked.applied THEN asked.applied[e] ELSE P[e]
<1> DEFINE P == PendingOps(own)
           more == Append(own, asked)
           Q == PendingOps(more)
           n == Len(own)
           a == asked.applied
<1>1. /\ more \in Seq(Request) /\ n \in Nat /\ Len(more) = n + 1 /\ more[n + 1] = asked
      /\ \A i \in 1 .. n : more[i] = own[i]
  BY AppendIs
<1> HIDE DEF more
<1>2. Sums(own, n, e, P) /\ Sums(more, n + 1, e, Q)
  BY <1>1, PendingIs
<1> HIDE DEF P, Q, n
<1>3. \A i \in 1 .. n : Latest(own, n, e, i) <=> Latest(more, n, e, i)
  <2>1. \A i \in 1 .. n : \A j \in i + 1 .. n : j \in 1 .. n
    BY <1>1
  <2> QED
    BY <1>1, <2>1 DEF Latest
<1>4. Sums(more, n, e, P)
  BY <1>1, <1>2, <1>3 DEF Sums
<1>5. Sums(more, n + 1, e, Atop(a, P))
  <2>1. n + 1 <= Len(more) /\ more[n + 1].applied = a
    BY <1>1
  <2> HIDE DEF a
  <2> QED
    BY <1>1, <1>4, <2>1, SumsStep
<1> DEFINE R == Atop(a, P)
<1>6. /\ e \in DOMAIN R <=> e \in DOMAIN a \/ e \in DOMAIN P
      /\ e \in DOMAIN R => R[e] = IF e \in DOMAIN a THEN a[e] ELSE P[e]
  BY AtopAt
<1> HIDE DEF R
<1>7. (e \in DOMAIN Q <=> e \in DOMAIN R) /\ (e \in DOMAIN Q => Q[e] = R[e])
  BY <1>2, <1>5, SumsSame DEF R
<1> QED
  BY <1>6, <1>7 DEF P, Q, more

\* What waits leads on whatever becomes of the requests no answer waits for.
LEMMA LeadsOwn ==
    ASSUME NEW own, NEW other, NEW msgs \in Seq(Message), NEW b, NEW s, Leads(own, msgs, b, s),
           \A j \in 1 .. Nth(msgs, Len(msgs)) : other[j] = own[j]
    PROVE  Leads(other, msgs, b, s)
<1> SUFFICES ASSUME NEW i \in 1 .. Len(msgs)
             PROVE  Told(other, msgs[i], Nth(msgs, i), b[i - 1], b[i])
  BY DEF Leads
<1>1. Told(own, msgs[i], Nth(msgs, i), b[i - 1], b[i])
  BY DEF Leads
<1>2. ASSUME msgs[i].cmd = "ack"
      PROVE  other[Nth(msgs, i)] = own[Nth(msgs, i)]
  <2>1. i - 1 \in Nat /\ (i - 1) + 1 = i /\ i \in 0 .. Len(msgs) /\ Len(msgs) \in Nat
    BY LenProperties
  <2>2. Nth(msgs, i - 1) \in Nat /\ Nth(msgs, i) = Nth(msgs, i - 1) + 1
    BY <1>2, <2>1, AnswersCounted DEF Nth
  <2>3. Nth(msgs, i) <= Nth(msgs, Len(msgs)) /\ Nth(msgs, Len(msgs)) \in Nat
    BY <2>1, AnswersWithin, AnswersCounted DEF Nth
  <2>4. Nth(msgs, i) \in 1 .. Nth(msgs, Len(msgs))
    BY <2>2, <2>3
  <2> QED
    BY <2>4
<1> QED
  BY <1>1, <1>2 DEF Told

LEMMA NthAppend ==
    ASSUME NEW msgs \in Seq(Message), NEW m \in Message
    PROVE  /\ Nth(msgs, Len(msgs)) \in Nat
           /\ Nth(Append(msgs, m), Len(msgs) + 1) = Nth(msgs, Len(msgs)) + (IF m.cmd = "ack" THEN 1 ELSE 0)
           /\ \A i \in 1 .. Len(msgs) : Nth(Append(msgs, m), i) = Nth(msgs, i)
<1> DEFINE more == Append(msgs, m)
<1>1. /\ Len(msgs) \in Nat /\ Len(more) = Len(msgs) + 1
      /\ more[Len(msgs) + 1] = m /\ \A i \in 1 .. Len(msgs) : more[i] = msgs[i]
  BY AppendIs
<1> HIDE DEF more
<1>2. \A i \in 1 .. Len(msgs) : Answers(more, i) = Answers(msgs, i)
  BY <1>1 DEF Answers
<1>3. Answers(more, Len(msgs)) = Answers(msgs, Len(msgs))
  BY <1>1 DEF Answers
<1>4. /\ Nth(msgs, Len(msgs)) \in Nat
      /\ Nth(more, Len(msgs) + 1) = Nth(more, Len(msgs)) + (IF more[Len(msgs) + 1].cmd = "ack" THEN 1 ELSE 0)
  BY <1>1, AnswersCounted DEF Nth
<1> QED
  BY <1>1, <1>2, <1>3, <1>4 DEF Nth, more

LEMMA LeadsAppend ==
    ASSUME NEW own, NEW msgs \in Seq(Message), NEW b, NEW s \in Doc, Leads(own, msgs, b, s),
           NEW m \in Message, NEW next \in Doc, Told(own, m, Nth(msgs, Len(msgs)) + 1, s, next)
    PROVE  \E a : Leads(own, Append(msgs, m), a, next) /\ a[0] = b[0]
<1> DEFINE more == Append(msgs, m)
           n == Len(msgs)
           a == [i \in 0 .. n + 1 |-> IF i = n + 1 THEN next ELSE b[i]]
<1>1. n \in Nat /\ Len(more) = n + 1 /\ more[n + 1] = m /\ \A i \in 1 .. n : more[i] = msgs[i]
  BY AppendIs
<1>2. /\ Nth(more, n + 1) = Nth(msgs, n) + (IF m.cmd = "ack" THEN 1 ELSE 0)
      /\ \A i \in 1 .. n : Nth(more, i) = Nth(msgs, i)
  BY NthAppend
<1>3. b \in [0 .. n -> Doc] /\ b[n] = s /\ \A i \in 1 .. n : Told(own, msgs[i], Nth(msgs, i), b[i - 1], b[i])
  BY DEF Leads
<1> HIDE DEF more, n
<1>4. a \in [0 .. n + 1 -> Doc] /\ a[n + 1] = next /\ a[0] = b[0] /\ a[n] = s
  BY <1>1, <1>3
<1>5. \A i \in 1 .. n : a[i - 1] = b[i - 1] /\ a[i] = b[i]
  BY <1>1
<1> HIDE DEF a
<1>6. ASSUME NEW i \in 1 .. n + 1
      PROVE  Told(own, more[i], Nth(more, i), a[i - 1], a[i])
  <2>1. CASE i = n + 1
    <3>1. i - 1 = n
      BY <1>1, <2>1
    <3>2. Told(own, m, Nth(more, n + 1), s, next)
      BY <1>2 DEF Told, n
    <3> QED
      BY <1>1, <1>4, <2>1, <3>1, <3>2
  <2>2. CASE i # n + 1
    <3>1. i \in 1 .. n
      BY <1>1, <2>2
    <3> QED
      BY <1>1, <1>2, <1>3, <1>5, <3>1
  <2> QED
    BY <2>1, <2>2
<1>7. Leads(own, more, a, next)
  BY <1>1, <1>4, <1>6 DEF Leads
<1> QED
  BY <1>4, <1>7 DEF more

LEMMA OutlivedAppend ==
    ASSUME NEW msgs \in Seq(Message), NEW m \in Message
    PROVE  Outlived(msgs, 0) \/ m.cmd = "snapshot" => Outlived(Append(msgs, m), 0)
<1> DEFINE more == Append(msgs, m)
<1>1. Len(msgs) \in Nat /\ Len(more) = Len(msgs) + 1 /\ more[Len(msgs) + 1] = m /\ \A i \in 1 .. Len(msgs) : more[i] = msgs[i]
  BY AppendIs
<1> HIDE DEF more
<1>2. Len(msgs) + 1 \in 0 + 1 .. Len(more) /\ \A i \in 0 + 1 .. Len(msgs) : i \in 0 + 1 .. Len(more) /\ i \in 1 .. Len(msgs)
  BY <1>1
<1> QED
  BY <1>1, <1>2 DEF Outlived, more

\* A message that waits behind the others.
LEMMA RightWaits ==
    ASSUME NEW own, NEW msgs \in Seq(Message), NEW model, NEW s \in Doc, Right(own, msgs, model, s),
           NEW m \in Message, NEW next \in Doc, Told(own, m, Nth(msgs, Len(msgs)) + 1, s, next),
           \A j \in Nth(msgs, Len(msgs)) + (IF m.cmd = "ack" THEN 1 ELSE 0) + 1 .. Len(own) :
              \A e \in own[j].left : next[e] = Gone
    PROVE  Right(own, Append(msgs, m), model, next)
<1> DEFINE more == Append(msgs, m)
<1>1. PICK b : Leads(own, msgs, b, s) /\ (Outlived(msgs, 0) \/ Shows(own, model, b[0]))
  BY DEF Right
<1>2. PICK a : Leads(own, more, a, next) /\ a[0] = b[0]
  BY <1>1, LeadsAppend
<1>3. Outlived(more, 0) \/ Shows(own, model, a[0])
  BY <1>1, <1>2, OutlivedAppend
<1>4. Len(more) = Len(msgs) + 1
  BY AppendIs
<1>5. Nth(more, Len(more)) = Nth(msgs, Len(msgs)) + (IF m.cmd = "ack" THEN 1 ELSE 0)
  BY <1>4, NthAppend
<1> HIDE DEF more
<1>6. Clean(own) /\ DeletesShown(own, model)
  BY DEF Right
<1> QED
  BY <1>2, <1>3, <1>5, <1>6 DEF Right, more

-----------------------------------------------------------------------------
(* A request made of what is shown                                          *)

LEMMA CommitRight ==
    ASSUME NEW own \in Seq(Request), NEW msgs \in Seq(Message), NEW model \in Doc, NEW s \in Doc,
           Right(own, msgs, model, s), Nth(msgs, Len(msgs)) <= Len(own),
           NEW asked \in Request, Proper(asked),
           \A i \in 1 .. Len(own) : \A e \in DOMAIN asked.applied : Deletes(own[i], e) => asked.applied[e] = Gone,
           \A i \in 1 .. Len(own) : asked.left \cap DOMAIN own[i].ops = {},
           \A e \in asked.left : s[e] = Gone,
           NEW next \in Doc, \A e \in Entities \ asked.left : next[e] = Over(asked.applied, model)[e]
    PROVE  Right(Append(own, asked), msgs, next, s)
<1> DEFINE more == Append(own, asked)
           n == Len(own)
           k == Nth(msgs, Len(msgs))
<1>1. /\ more \in Seq(Request) /\ n \in Nat /\ Len(more) = n + 1 /\ more[n + 1] = asked
      /\ \A i \in 1 .. n : more[i] = own[i]
  BY AppendIs
<1>2. k \in Nat
  BY AnswersCounted, LenProperties DEF Nth
<1>3. Clean(own) /\ DeletesShown(own, model) /\ (\A j \in k + 1 .. n : \A e \in own[j].left : s[e] = Gone)
  BY DEF Right
<1>4. PICK b : Leads(own, msgs, b, s) /\ (Outlived(msgs, 0) \/ Shows(own, model, b[0]))
  BY DEF Right
<1>5. k <= n
  OBVIOUS
<1>6. \A e \in DOMAIN asked.applied : e \notin asked.left
  <2>1. DOMAIN Nothing = {}
    BY DEF Nothing
  <2> QED
    BY <2>1 DEF Proper
<1>7. \A i \in 1 .. n : \A e : e \in DOMAIN own[i].applied => e \in DOMAIN own[i].ops
  <2>1. DOMAIN Nothing = {}
    BY DEF Nothing
  <2>2. \A i \in 1 .. n : Proper(own[i])
    BY <1>3 DEF Clean
  <2> QED
    BY <2>1, <2>2, Zenon DEF Proper
<1>8. \A i \in 1 .. n + 1 : i \in 1 .. n \/ i = n + 1
  BY <1>1
<1>9. \A e \in Entities : Over(asked.applied, model)[e] =
         IF e \in DOMAIN asked.applied /\ (model[e] # Gone \/ e \in Fresh) THEN asked.applied[e] ELSE model[e]
  BY OverAt
<1>10. \A e : \A i \in 1 .. n : Deletes(own[i], e) =>
          e \notin asked.left /\ (e \in DOMAIN asked.applied => asked.applied[e] = Gone)
  BY <1>7 DEF Deletes
<1> HIDE DEF more, n, k
<1>11. Clean(more)
  <2>1. \A i \in 1 .. n + 1 : Proper(more[i])
    BY <1>1, <1>3, <1>8 DEF Clean, n
  <2>2. ASSUME NEW i \in 1 .. n + 1, NEW j \in 1 .. n + 1, i < j
        PROVE  /\ \A e \in DOMAIN more[j].applied : Deletes(more[i], e) => more[j].applied[e] = Gone
               /\ more[j].left \cap DOMAIN more[i].ops = {}
    <3>1. i \in 1 .. n
      BY <1>1, <2>2
    <3>2. CASE j = n + 1
      BY <1>1, <1>10, <3>1, <3>2 DEF n
    <3>3. CASE j \in 1 .. n
      BY <1>1, <1>3, <2>2, <3>1, <3>3 DEF Clean, n
    <3> QED
      BY <1>8, <3>2, <3>3
  <2> QED
    BY <1>1, <2>1, <2>2 DEF Clean
<1>12. ASSUME NEW i \in 1 .. n + 1, NEW e \in Entities, Deletes(more[i], e)
       PROVE  next[e] = Gone
  <2>1. CASE i \in 1 .. n
    <3>1. Deletes(own[i], e)
      BY <1>1, <1>12, <2>1
    <3>2. model[e] = Gone
      BY <1>3, <2>1, <3>1 DEF DeletesShown, n
    <3> QED
      BY <1>9, <1>10, <2>1, <3>1, <3>2
  <2>2. CASE i = n + 1
    BY <1>1, <1>6, <1>9, <1>12, <2>2 DEF Deletes
  <2> QED
    BY <1>8, <2>1, <2>2
<1>13. ASSUME NEW j \in k + 1 .. n + 1, NEW e \in more[j].left
       PROVE  s[e] = Gone
  <2>1. CASE j = n + 1
    BY <1>1, <1>13, <2>1
  <2>2. CASE j # n + 1
    <3>1. j \in k + 1 .. n /\ j \in 1 .. n
      BY <1>1, <1>2, <2>2
    <3> QED
      BY <1>1, <1>3, <1>13, <3>1
  <2> QED
    BY <2>1, <2>2
<1>14. Leads(more, msgs, b, s)
  <2>1. \A j \in 1 .. k : more[j] = own[j]
    BY <1>1, <1>2, <1>5
  <2> QED
    BY <1>4, <2>1, LeadsOwn DEF k
<1>15. ASSUME Shows(own, model, b[0]), NEW e \in Entities \ LeftBy(more)
       PROVE  next[e] = Over(PendingOps(more), b[0])[e]
  <2> DEFINE P == PendingOps(own)
             Q == PendingOps(more)
             doc == b[0]
             a == asked.applied
  <2>1. e \notin LeftBy(own) /\ e \notin asked.left
    <3>1. n + 1 \in 1 .. n + 1 /\ \A i \in 1 .. n : i \in 1 .. n + 1
      BY <1>1
    <3> QED
      BY <1>1, <3>1 DEF LeftBy, n
  <2>2. model[e] = Over(P, doc)[e]
    BY <1>15, <2>1 DEF Shows
  <2>3. /\ e \in DOMAIN Q <=> e \in DOMAIN a \/ e \in DOMAIN P
        /\ e \in DOMAIN Q => Q[e] = IF e \in DOMAIN a THEN a[e] ELSE P[e]
    BY PendingAppend DEF more
  <2>4. e \in DOMAIN a /\ e \in DOMAIN P => P[e] # Gone \/ a[e] = Gone
    <3> SUFFICES ASSUME e \in DOMAIN a, e \in DOMAIN P PROVE P[e] # Gone \/ a[e] = Gone
      OBVIOUS
    <3>1. Sums(own, n, e, P)
      BY PendingIs DEF n
    <3> HIDE DEF P
    <3>2. PICK i \in 1 .. n : Latest(own, n, e, i)
      BY <3>1 DEF Sums
    <3>3. P[e] = own[i].applied[e] /\ e \in DOMAIN own[i].applied
      BY <3>1, <3>2 DEF Sums, Latest
    <3> QED
      BY <1>10, <3>3 DEF Deletes
  <2>5. next[e] = IF e \in DOMAIN a /\ (model[e] # Gone \/ e \in Fresh) THEN a[e] ELSE model[e]
    BY <1>9, <2>1
  <2> HIDE DEF P, Q, doc, a
  <2>6. /\ Over(P, doc)[e] = IF e \in DOMAIN P /\ (doc[e] # Gone \/ e \in Fresh) THEN P[e] ELSE doc[e]
        /\ Over(Q, doc)[e] = IF e \in DOMAIN Q /\ (doc[e] # Gone \/ e \in Fresh) THEN Q[e] ELSE doc[e]
    BY OverAt
  <2>7. next[e] = Over(Q, doc)[e]
    BY <2>2, <2>3, <2>4, <2>5, <2>6
  <2> QED
    BY <2>7 DEF Q, doc
<1>16. Outlived(msgs, 0) \/ Shows(more, next, b[0])
  BY <1>4, <1>15 DEF Shows
<1>17. DeletesShown(more, next)
  BY <1>1, <1>12 DEF DeletesShown
<1> QED
  BY <1>1, <1>11, <1>13, <1>14, <1>16, <1>17 DEF Right, more, k

\* What is shown was not deleted here, and no request can have deleted what none names.
LEMMA ShownUndeleted ==
    ASSUME NEW own, NEW model, Clean(own), DeletesShown(own, model), NEW e \in Entities,
           model[e] # Gone \/ Untouched(own, e)
    PROVE  \A i \in 1 .. Len(own) : ~Deletes(own[i], e)
<1> SUFFICES ASSUME NEW i \in 1 .. Len(own), Deletes(own[i], e) PROVE FALSE
  OBVIOUS
<1>1. model[e] = Gone
  BY DEF DeletesShown
<1>2. e \in DOMAIN own[i].ops
  <2>1. DOMAIN Nothing = {} /\ Proper(own[i])
    BY DEF Nothing, Clean
  <2> QED
    BY <2>1 DEF Proper, Deletes
<1> QED
  BY <1>1, <1>2 DEF Untouched

\* A commit of what is shown, or of what no request ever named.
LEMMA CommitFit ==
    ASSUME NEW d \in Canvases, Counted(d), NEW s \in Doc, Fit(d, s), NEW ops \in Ops,
           \A e \in DOMAIN ops : ops[e] = Gone \/ d.model[e] # Gone \/ Untouched(d.own, e)
    PROVE  Fit(Commit(d, ops), s) /\ Commit(d, ops).preview = d.preview
<1> DEFINE asked == [undo |-> FALSE, ops |-> ops, applied |-> ops, left |-> {}]
           doc == Over(ops, d.model)
           drawn == Write(d, doc)
           e == Commit(d, ops)
<1>1. asked \in Request
  BY DEF Request
<1>2. d.own \in Seq(Request) /\ d.deferred \in Seq(Message) /\ d.model \in Doc
  BY CanvasParts
<1>3. doc \in Doc
  BY <1>2, OverDoc
<1>4. e = [drawn EXCEPT !.own = Append(@, asked)]
  BY DEF Commit, CommitDrawn
<1>5. asked.left = {} /\ asked.applied = ops /\ Proper(asked)
  BY DEF Proper
<1> HIDE DEF asked, e
<1>6. \A x \in Entities \ asked.left : doc[x] = Over(asked.applied, d.model)[x]
  BY <1>5
<1> HIDE DEF doc
<1>7. /\ drawn \in Canvases /\ drawn.own = d.own /\ drawn.deferred = d.deferred /\ drawn.model = doc
      /\ drawn.preview = d.preview /\ drawn.selection \subseteq Alive(doc)
  BY <1>3, WritePrunes, WriteAround DEF Around
<1> HIDE DEF drawn
<1>8. /\ e.own = Append(d.own, asked) /\ e.deferred = d.deferred /\ e.model = doc /\ e.preview = d.preview
      /\ e.selection \subseteq Alive(doc)
  BY <1>4, <1>7 DEF Canvases
<1> DEFINE own == d.own
           msgs == d.deferred
           model == d.model
<1>9. Right(own, msgs, model, s) /\ Clean(own) /\ DeletesShown(own, model)
  BY DEF Fit, Right
<1>10. \A i \in 1 .. Len(own) : \A x \in DOMAIN asked.applied : Deletes(own[i], x) => asked.applied[x] = Gone
  <2>1. DOMAIN ops \subseteq Entities
    BY OpsShape
  <2> QED
    BY <1>5, <1>9, <2>1, ShownUndeleted
<1>11. /\ \A i \in 1 .. Len(own) : asked.left \cap DOMAIN own[i].ops = {}
       /\ \A x \in asked.left : s[x] = Gone
  BY <1>5
<1>12. Nth(msgs, Len(msgs)) <= Len(own)
  BY DEF Counted, Waiting, Nth
<1>13. own \in Seq(Request) /\ msgs \in Seq(Message) /\ model \in Doc /\ asked \in Request
  BY <1>1, <1>2
<1>14. \A x \in Entities \ asked.left : doc[x] = Over(asked.applied, model)[x]
  BY <1>6
<1> HIDE DEF own, msgs, model
<1>15. Right(Append(own, asked), msgs, doc, s)
  BY <1>3, <1>5, <1>9, <1>10, <1>11, <1>12, <1>13, <1>14, CommitRight
<1> QED
  BY <1>8, <1>15 DEF Fit, own, msgs, e

\* A commit of what a drag drew: shown already, and stored by nobody yet.
LEMMA DrawnFit ==
    ASSUME NEW d \in Canvases, Counted(d), NEW s \in Doc, NEW model \in Doc,
           Right(d.own, d.deferred, model, s), d.selection \subseteq Alive(d.model),
           NEW keep \in SUBSET Waypoints, NEW refused \in BOOLEAN,
           \A e \in Entities \ keep : d.model[e] = model[e],
           \A e \in keep : d.model[e] # Gone /\ s[e] = Gone /\ Untouched(d.own, e)
    PROVE  LET e == CommitDrawn(d, Restrict(d.model, keep), refused)
           IN  Fit(e, s) /\ e.preview = d.preview /\ e.live = d.live
<1> DEFINE ops == Restrict(d.model, keep)
           asked == [undo |-> FALSE, ops |-> ops, applied |-> IF refused THEN Nothing ELSE ops,
                     left |-> IF refused THEN DOMAIN ops ELSE {}]
           doc == IF refused THEN d.model ELSE Over(ops, d.model)
           drawn == Write(d, doc)
           e == CommitDrawn(d, ops, refused)
<1>1. d.own \in Seq(Request) /\ d.deferred \in Seq(Message) /\ d.model \in Doc /\ keep \in SUBSET Entities /\ keep \subseteq Fresh
  BY CanvasParts, EntitiesKnown DEF Fresh
<1>2. ops \in Ops
  BY <1>1, RestrictedDoc
<1>3. DOMAIN ops = keep /\ \A x \in keep : ops[x] = d.model[x]
  BY RestrictAt
<1>4. e = [drawn EXCEPT !.own = Append(@, asked)]
  BY DEF CommitDrawn
<1> HIDE DEF ops, e
<1>5. DOMAIN Nothing = {} /\ Nothing \in Ops
  BY NothingOps DEF Nothing
<1>6. /\ asked \in Request /\ asked.ops = ops /\ ~asked.undo
      /\ asked.applied = (IF refused THEN Nothing ELSE ops) /\ asked.left = (IF refused THEN keep ELSE {})
  BY <1>1, <1>2, <1>3, <1>5 DEF Request
<1> HIDE DEF asked
<1>7. Proper(asked)
  BY <1>1, <1>3, <1>6 DEF Proper
<1>8. doc \in Doc
  BY <1>1, <1>2, OverDoc
<1>9. ASSUME NEW x \in Entities
      PROVE  doc[x] = d.model[x]
  <2>1. Over(ops, d.model)[x] = IF x \in DOMAIN ops /\ (d.model[x] # Gone \/ x \in Fresh) THEN ops[x] ELSE d.model[x]
    BY OverAt
  <2> QED
    BY <1>3, <2>1
<1> HIDE DEF doc
<1>10. /\ drawn \in Canvases /\ drawn.own = d.own /\ drawn.deferred = d.deferred /\ drawn.model = doc
       /\ drawn.preview = d.preview /\ drawn.selection \subseteq Alive(doc) /\ drawn.live = d.live
  BY <1>8, WritePrunes, WriteAround DEF Around
<1> HIDE DEF drawn
<1>11. /\ e.own = Append(d.own, asked) /\ e.deferred = d.deferred /\ e.model = doc /\ e.preview = d.preview
       /\ e.selection \subseteq Alive(doc) /\ e.live = d.live
  BY <1>4, <1>10 DEF Canvases
<1> DEFINE own == d.own
           msgs == d.deferred
<1>12. Right(own, msgs, model, s) /\ Clean(own) /\ DeletesShown(own, model)
  BY DEF Right
<1>13. \A i \in 1 .. Len(own) : \A x \in DOMAIN asked.applied : Deletes(own[i], x) => asked.applied[x] = Gone
  BY <1>1, <1>3, <1>5, <1>6, <1>12, ShownUndeleted
<1>14. /\ \A i \in 1 .. Len(own) : asked.left \cap DOMAIN own[i].ops = {}
       /\ \A x \in asked.left : s[x] = Gone
  BY <1>6 DEF Untouched
<1>15. Nth(msgs, Len(msgs)) <= Len(own)
  BY DEF Counted, Waiting, Nth
<1>16. own \in Seq(Request) /\ msgs \in Seq(Message)
  BY <1>1
<1>17. ASSUME NEW x \in Entities \ asked.left
       PROVE  doc[x] = Over(asked.applied, model)[x]
  <2>1. Over(asked.applied, model)[x] =
          IF x \in DOMAIN asked.applied /\ (model[x] # Gone \/ x \in Fresh) THEN asked.applied[x] ELSE model[x]
    BY OverAt
  <2> QED
    BY <1>1, <1>3, <1>5, <1>6, <1>9, <2>1
<1> HIDE DEF own, msgs
<1>18. Right(Append(own, asked), msgs, doc, s)
  BY <1>6, <1>7, <1>8, <1>12, <1>13, <1>14, <1>15, <1>16, <1>17, CommitRight
<1> QED
  BY <1>11, <1>18 DEF Fit, own, msgs, e, ops

-----------------------------------------------------------------------------
(* A gesture in hand                                                        *)

\* The canvas the gesture in hand would leave if it were cancelled.
Rewound(d) == UndoGesture(d, d.live)

\* What a drag placed is shown and nobody's yet; a resize is of something shown; copies
\* are new; and only what is dragged has a preview.
Hand(d, s) ==
    /\ d.live.name # "link" => d.live.placed = {}
    /\ d.live.placed # {} => d.live.via
    /\ \A e \in d.live.placed : d.model[e] # Gone /\ s[e] = Gone /\ Untouched(d.own, e)
    /\ d.live.name = "handle" => d.model[d.live.of] # Gone /\ d.live.before[d.live.of] # Gone
    /\ d.live.name = "clone" => \A e \in d.live.moved : e \in Fresh /\ Untouched(d.own, e)
    /\ d.preview # NoPreview => d.live.name \in {"move", "clone"}

\* Cancelled, the canvas would be right.
Kept(d, s) ==
    /\ Right(d.own, d.deferred, Rewound(d).model, s)
    /\ d.selection \subseteq Alive(d.model)
    /\ Hand(d, s)

LEMMA RewoundIs ==
    ASSUME NEW d \in Canvases, NEW g \in Live
    PROVE  LET u == UndoGesture(d, g) IN
           /\ u \in Canvases /\ u.own = d.own /\ u.deferred = d.deferred /\ u.model \in Doc
           /\ d.selection \subseteq Alive(d.model) => u.selection \subseteq Alive(u.model)
           /\ g.name = "link" => u.model = [e \in Entities |-> IF e \in g.placed THEN Gone ELSE d.model[e]]
           /\ g.name = "handle" /\ d.model[g.of] # Gone => u.model = [d.model EXCEPT ![g.of] = g.before[g.of]]
           /\ g.name # "link" /\ ~(g.name = "handle" /\ d.model[g.of] # Gone) => u.model = d.model
<1> DEFINE u == UndoGesture(d, g)
           placed == [e \in Entities |-> IF e \in g.placed THEN Gone ELSE d.model[e]]
           before == [d.model EXCEPT ![g.of] = g.before[g.of]]
<1>0. d.model \in Doc /\ g.before \in Doc /\ g.of \in Entities
  BY CanvasParts DEF Live
<1>1. Around(d, u)
  BY UndoGestureAround
<1>2. u \in Canvases /\ u.own = d.own /\ u.deferred = d.deferred /\ u.model \in Doc
  BY <1>1, CanvasParts DEF Around
<1>3. CASE g.name = "link"
  <2>1. placed \in Doc
    BY <1>0 DEF Doc
  <2>2. u = Write(d, placed)
    BY <1>3 DEF UndoGesture, CleanupRoute
  <2>3. u.model = placed /\ u.selection = d.selection \cap Alive(placed)
    BY <2>1, <2>2, WritePrunes
  <2> QED
    BY <1>2, <1>3, <2>3
<1>4. CASE g.name = "handle" /\ d.model[g.of] # Gone
  <2>1. before \in Doc
    BY <1>0 DEF Doc
  <2>2. u = Write(d, before)
    BY <1>4 DEF UndoGesture
  <2>3. u.model = before /\ u.selection = d.selection \cap Alive(before)
    BY <2>1, <2>2, WritePrunes
  <2> QED
    BY <1>2, <1>4, <2>3
<1>5. CASE g.name = "clone"
  <2>1. u = [d EXCEPT !.selection = {}]
    BY <1>5 DEF UndoGesture
  <2>2. u.model = d.model /\ u.selection = {}
    BY <2>1 DEF Canvases
  <2> QED
    BY <1>2, <1>5, <2>2
<1>6. CASE g.name # "link" /\ ~(g.name = "handle" /\ d.model[g.of] # Gone) /\ g.name # "clone"
  <2>1. u = d
    BY <1>6 DEF UndoGesture
  <2> QED
    BY <1>2, <1>6, <2>1
<1> QED
  BY <1>3, <1>4, <1>5, <1>6

LEMMA RewoundModel ==
    ASSUME NEW d \in Canvases
    PROVE  /\ Rewound(d).model \in Doc
           /\ d.live.name = "link" =>
                Rewound(d).model = [e \in Entities |-> IF e \in d.live.placed THEN Gone ELSE d.model[e]]
           /\ d.live.name = "handle" /\ d.model[d.live.of] # Gone =>
                Rewound(d).model = [d.model EXCEPT ![d.live.of] = d.live.before[d.live.of]]
           /\ d.live.name \notin {"link", "handle"} => Rewound(d).model = d.model
<1>1. d.live \in Live
  BY CanvasParts
<1> QED
  BY <1>1, RewoundIs DEF Rewound

\* Nothing of the gesture in hand is in the Model.
LEMMA BareRewound ==
    ASSUME NEW d \in Canvases, d.live.placed = {}, d.live.name # "handle"
    PROVE  Rewound(d).model = d.model
<1>1. d.model \in Doc
  BY CanvasParts
<1>2. /\ d.live.name = "link" => Rewound(d).model = [e \in Entities |-> IF e \in d.live.placed THEN Gone ELSE d.model[e]]
      /\ d.live.name \notin {"link", "handle"} => Rewound(d).model = d.model
  BY RewoundModel
<1>3. [e \in Entities |-> IF e \in d.live.placed THEN Gone ELSE d.model[e]] = d.model
  BY <1>1 DEF Doc
<1> QED
  BY <1>2, <1>3

LEMMA BareKept ==
    ASSUME NEW d \in Canvases, NEW s, Fit(d, s), d.live.placed = {}, d.live.name \notin {"handle", "clone"},
           d.preview = NoPreview \/ d.live.name = "move"
    PROVE  Kept(d, s)
<1>1. Rewound(d).model = d.model
  BY BareRewound
<1> QED
  BY <1>1 DEF Kept, Fit, Hand

LEMMA KeptBare ==
    ASSUME NEW d \in Canvases, NEW s, Kept(d, s), d.live.name \notin {"link", "handle"}
    PROVE  Fit(d, s)
<1>1. Rewound(d).model = d.model
  BY BareRewound DEF Kept, Hand
<1> QED
  BY <1>1 DEF Kept, Fit

\* Only the gesture changes, and nothing of it is in the Model.
LEMMA FitSame ==
    ASSUME NEW d, NEW s, Fit(d, s), NEW e, e.own = d.own, e.deferred = d.deferred, e.model = d.model,
           e.selection \subseteq Alive(e.model)
    PROVE  Fit(e, s)
  BY DEF Fit

LEMMA IdlePlaces ==
    /\ Idle.placed = {} /\ Idle.name = "none"
    /\ \A name, e : Gesture(name, e).placed = {} /\ Gesture(name, e).name = name /\ Gesture(name, e).of = e
    /\ \A e : LinkFrom(e).placed = {} /\ LinkFrom(e).name = "link"
  BY DEF Idle, Gesture, LinkFrom

\* A canvas that no gesture holds is given all that waited.
LEMMA ReleaseFit ==
    ASSUME NEW d \in Canvases, Counted(d), NEW s \in Doc, Fit(d, s), ~Gesturing(d)
    PROVE  Fit(ReleaseDeferred(d), s) /\ ReleaseDeferred(d).preview = d.preview
<1>1. ReleaseDeferred(d) = Unheld(d)[Len(d.deferred)]
  BY DEF ReleaseDeferred
<1> QED
  BY <1>1, UnheldFit

LEMMA CancelFit ==
    ASSUME NEW d \in Canvases, Counted(d), NEW s \in Doc, Kept(d, s)
    PROVE  Fit(Cancel(d), s) /\ Cancel(d).preview = NoPreview
<1>1. CASE d.live = Idle
  <2>1. Cancel(d) = d /\ d.live.name = "none"
    BY <1>1, IdlePlaces DEF Cancel
  <2> QED
    BY <2>1, KeptBare DEF Kept, Hand
<1>2. CASE d.live # Idle
  <2> DEFINE undone == Rewound(d)
             idle == [undone EXCEPT !.live = Idle]
             clear == [idle EXCEPT !.preview = NoPreview]
  <2>1. /\ undone \in Canvases /\ undone.own = d.own /\ undone.deferred = d.deferred
        /\ undone.selection \subseteq Alive(undone.model)
    BY CanvasParts, RewoundIs DEF Rewound, Kept
  <2>2. Cancel(d) = ReleaseDeferred(clear)
    BY <1>2 DEF Cancel, Cancelled, Rewound
  <2>3. Right(d.own, d.deferred, undone.model, s)
    BY DEF Kept
  <2> HIDE DEF undone
  <2>4. /\ clear \in Canvases /\ clear.own = d.own /\ clear.deferred = d.deferred /\ clear.model = undone.model
        /\ clear.selection = undone.selection /\ clear.live = Idle /\ clear.preview = NoPreview
    BY <2>1, IdleLive, NoPreviewDoc DEF Canvases
  <2> HIDE DEF clear
  <2>5. Fit(clear, s) /\ ~Gesturing(clear) /\ Counted(clear)
    BY <2>1, <2>3, <2>4, IdleSilent DEF Fit, Counted, Waiting
  <2> QED
    BY <2>2, <2>4, <2>5, ReleaseFit
<1> QED
  BY <1>1, <1>2

\* A gesture that begins ends the one there was.
LEMMA BegunFit ==
    ASSUME Good(c), NEW s \in Doc, Kept(c, s), NEW g \in Live, c.readOnly => g.name \notin Editing
    PROVE  /\ Fit(Begun(g), s) /\ Begun(g).preview = NoPreview /\ Begun(g).live = g
           /\ Begun(g) \in Canvases /\ Counted(Begun(g))
<1> DEFINE idle == Cancel(c)
           e == Begun(g)
<1>1. Fit(idle, s) /\ idle.preview = NoPreview
  BY CancelFit DEF Good
<1>2. idle \in Canvases
  BY CancelRests DEF Good, Rests
<1>3. e = [idle EXCEPT !.live = g]
  BY DEF Begun
<1>4. e.live = g /\ e \in Canvases /\ Counted(e)
  BY BegunGood DEF Good
<1> HIDE DEF idle, e
<1>5. /\ e.own = idle.own /\ e.deferred = idle.deferred /\ e.model = idle.model
      /\ e.selection = idle.selection /\ e.preview = idle.preview
  BY <1>2, <1>3 DEF Canvases
<1>6. Fit(e, s)
  BY <1>1, <1>5 DEF Fit
<1> QED
  BY <1>1, <1>4, <1>5, <1>6 DEF e

\* However a gesture ends, nothing of it stays.
LEMMA FinishKept ==
    ASSUME Good(c), NEW s \in Doc, NEW d, Closes(c, d), Fit(d, s), d.live.placed = {},
           d.live.name \notin {"handle", "clone", "move"}, Gesturing(d) => d.preview = NoPreview
    PROVE  Kept(Finish(c, d), s)
<1> DEFINE clear == [d EXCEPT !.preview = NoPreview]
           ended == IF Gesturing(d) THEN d ELSE clear
           f == Finish(c, d)
           e == ReleaseDeferred(ended)
<1>1. d \in Canvases /\ Counted(d)
  BY DEF Closes
<1>2. /\ clear \in Canvases /\ clear.own = d.own /\ clear.deferred = d.deferred /\ clear.model = d.model
      /\ clear.selection = d.selection /\ clear.live = d.live /\ clear.preview = NoPreview
  BY <1>1, NoPreviewDoc DEF Canvases
<1> HIDE DEF clear
<1>3. /\ ended \in Canvases /\ ended.own = d.own /\ ended.deferred = d.deferred /\ ended.model = d.model
      /\ ended.selection = d.selection /\ ended.live = d.live /\ ended.preview = NoPreview
  BY <1>1, <1>2
<1>4. f = IF Gesturing(c) THEN e ELSE ended
  BY DEF Finish, clear
<1> HIDE DEF ended, f
<1>5. Fit(ended, s) /\ Counted(ended) /\ (Gesturing(ended) <=> Gesturing(d))
  BY <1>1, <1>3 DEF Fit, Counted, Waiting, Gesturing
<1>6. Kept(ended, s)
  BY <1>3, <1>5, BareKept
<1>7. CASE f = ended
  BY <1>6, <1>7 DEF f
<1>8. CASE f # ended
  <2>1. f = e /\ ~Gesturing(ended)
    BY <1>4, <1>8 DEF ReleaseDeferred
  <2>2. Fit(e, s) /\ e.preview = NoPreview
    BY <1>3, <1>5, <2>1, ReleaseFit
  <2>3. e \in Canvases /\ e.live \in {d.live, Idle}
    BY <1>3, <1>5, <2>1, ReleaseRests
  <2> HIDE DEF e
  <2>4. e.live.placed = {} /\ e.live.name \notin {"handle", "clone"}
    BY <2>3, IdlePlaces
  <2>5. Kept(e, s)
    BY <2>2, <2>3, <2>4, BareKept
  <2> QED
    BY <2>1, <2>5 DEF f
<1> QED
  BY <1>7, <1>8

\* What is undone depends on the Model and the gesture alone.
LEMMA UndoneSame ==
    ASSUME NEW d \in Canvases, NEW e \in Canvases, e.model = d.model, NEW g \in Live
    PROVE  UndoGesture(e, g).model = UndoGesture(d, g).model
<1> DEFINE u == UndoGesture(d, g).model
           v == UndoGesture(e, g).model
<1>1. /\ g.name = "link" => u = [x \in Entities |-> IF x \in g.placed THEN Gone ELSE d.model[x]]
      /\ g.name = "handle" /\ d.model[g.of] # Gone => u = [d.model EXCEPT ![g.of] = g.before[g.of]]
      /\ g.name # "link" /\ ~(g.name = "handle" /\ d.model[g.of] # Gone) => u = d.model
  BY RewoundIs
<1>2. /\ g.name = "link" => v = [x \in Entities |-> IF x \in g.placed THEN Gone ELSE e.model[x]]
      /\ g.name = "handle" /\ e.model[g.of] # Gone => v = [e.model EXCEPT ![g.of] = g.before[g.of]]
      /\ g.name # "link" /\ ~(g.name = "handle" /\ e.model[g.of] # Gone) => v = e.model
  BY RewoundIs
<1> HIDE DEF u, v
<1>3. u = v
  BY <1>1, <1>2
<1> QED
  BY <1>3 DEF u, v

-----------------------------------------------------------------------------
(* Presses: what they leave is right                                        *)

Sure == TypeOK /\ Good(c) /\ Kept(c, server)

LEMMA SureParts ==
    ASSUME Sure
    PROVE  /\ c \in Canvases /\ Counted(c) /\ Held(c) /\ server \in Doc /\ c.model \in Doc /\ c.live \in Live
           /\ c.own \in Seq(Request) /\ c.deferred \in Seq(Message) /\ c.preview \in Doc
           /\ c.live.of \in Entities /\ c.live.placed \in SUBSET Waypoints /\ c.live.moved \in SUBSET Entities
           /\ c.live.before \in Doc /\ c.selection \in SUBSET Entities
           /\ Right(c.own, c.deferred, Rewound(c).model, server)
           /\ c.selection \subseteq Alive(c.model) /\ Hand(c, server)
           /\ c.live.name # "link" => c.live.placed = {}
           /\ c.live.name \notin {"move", "clone"} => c.preview = NoPreview
<1>1. c \in Canvases /\ Counted(c) /\ Held(c) /\ server \in Doc
  BY DEF Sure, Good, TypeOK
<1>2. c.live \in Live
  BY <1>1, CanvasParts
<1> QED
  BY <1>1, <1>2, CanvasParts DEF Sure, Kept, Hand, Live

LEMMA SureBegun ==
    ASSUME Sure, NEW g \in Live, c.readOnly => g.name \notin Editing
    PROVE  /\ Fit(Begun(g), server) /\ Begun(g).preview = NoPreview /\ Begun(g).live = g
           /\ Begun(g) \in Canvases /\ Counted(Begun(g))
  BY BegunFit, SureParts DEF Sure

LEMMA BegunKept ==
    ASSUME Sure, NEW g \in Live, c.readOnly => g.name \notin Editing,
           g.placed = {}, g.name \notin {"handle", "clone"}, c' = Begun(g)
    PROVE  Kept(c', server)
<1> DEFINE d == Begun(g)
<1>1. Fit(d, server) /\ d.preview = NoPreview /\ d.live = g /\ d \in Canvases
  BY SureBegun
<1> HIDE DEF d
<1>2. Kept(d, server)
  BY <1>1, BareKept
<1> QED
  BY <1>2 DEF d

LEMMA PressLinkKept ==
    ASSUME Sure, NEW e \in Entities, PressLink(e)
    PROVE  Kept(c', server)
<1> DEFINE g == Gesture("link", e)
<1>1. c' = Begun(g) /\ ~c.readOnly
  BY DEF PressLink, Looks
<1>2. g \in Live /\ g.name = "link" /\ g.placed = {}
  BY GestureLive, IdlePlaces DEF Editing
<1> HIDE DEF g
<1> QED
  BY <1>1, <1>2, BegunKept

LEMMA PressGroundKept ==
    ASSUME Sure, NEW shift \in BOOLEAN, PressGround(shift)
    PROVE  Kept(c', server)
<1> DEFINE name == IF shift /\ ~c.readOnly THEN "box" ELSE "marquee"
           g == Gesture(name, Device)
<1>1. c' = Begun(g)
  BY DEF PressGround, Looks
<1>2. /\ name \in Editing \cup Engaged \cup {"none", "pending"} /\ (c.readOnly => name \notin Editing)
      /\ name \notin {"handle", "clone"}
  BY DEF Editing, Engaged
<1> HIDE DEF name
<1>3. g \in Live /\ g.name = name /\ g.placed = {}
  BY <1>2, EntitiesKnown, GestureLive, IdlePlaces
<1> HIDE DEF g
<1> QED
  BY <1>1, <1>2, <1>3, BegunKept

LEMMA PressClonesKept ==
    ASSUME Sure, NEW e \in Entities, NEW shift \in BOOLEAN, PressClones(e, shift)
    PROVE  Kept(c', server)
<1> DEFINE g == Gesture("clone-pending", e)
<1>1. c' = Begun(g) /\ ~c.readOnly
  BY DEF PressClones, Looks
<1>2. g \in Live /\ g.name = "clone-pending" /\ g.placed = {}
  BY GestureLive, IdlePlaces DEF Editing
<1> HIDE DEF g
<1> QED
  BY <1>1, <1>2, BegunKept

LEMMA PressSelectsKept ==
    ASSUME Sure, NEW e \in Entities, NEW shift \in BOOLEAN, PressSelects(e, shift)
    PROVE  Kept(c', server)
<1> DEFINE g == Gesture("pending", e)
           d == Begun(g)
<1>1. g \in Live /\ g.name = "pending" /\ g.placed = {} /\ "pending" \notin Editing
  BY GestureLive, IdlePlaces DEF Editing
<1> HIDE DEF g
<1>2. Fit(d, server) /\ d.preview = NoPreview /\ d.live = g /\ d \in Canvases
  BY <1>1, SureBegun
<1>3. PICK picked : c' = [d EXCEPT !.selection = Alive(d.model) \cap picked]
  BY DEF PressSelects, Looks, g
<1> HIDE DEF d
<1>4. Alive(d.model) \cap picked \in SUBSET Entities
  BY DEF Alive
<1>5. /\ c' \in Canvases /\ c'.own = d.own /\ c'.deferred = d.deferred /\ c'.model = d.model
      /\ c'.selection \subseteq Alive(d.model) /\ c'.live = g /\ c'.preview = NoPreview
  BY <1>2, <1>3, <1>4 DEF Canvases
<1>6. Fit(c', server)
  BY <1>2, <1>5, FitSame
<1> QED
  BY <1>1, <1>5, <1>6, BareKept

\* The Model without what a drag placed in it, and with a zone where it stood.
Undrawn(g, model)  == [e \in Entities |-> IF e \in g.placed THEN Gone ELSE model[e]]
Restored(g, model) == [model EXCEPT ![g.of] = g.before[g.of]]

LEMMA RewoundOf ==
    ASSUME NEW d \in Canvases, NEW g, d.live = g, NEW model, d.model = model
    PROVE  /\ g.name = "link" => Rewound(d).model = Undrawn(g, model)
           /\ g.name = "handle" /\ model[g.of] # Gone => Rewound(d).model = Restored(g, model)
           /\ g.name \notin {"link", "handle"} => Rewound(d).model = model
  BY RewoundModel DEF Undrawn, Restored

LEMMA PressHandleKept ==
    ASSUME Sure, NEW e \in Entities, PressHandle(e)
    PROVE  Kept(c', server)
<1> DEFINE g == [Gesture("handle", e) EXCEPT !.before = c.model]
<1>1. c.live = Idle /\ c.selection = {e} /\ c' = [c EXCEPT !.live = g]
  BY DEF PressHandle, Looks, Begun, FreeForLeft, Cancel
<1>2. c \in Canvases /\ c.model \in Doc /\ c.selection \subseteq Alive(c.model) /\ c.preview = NoPreview
  BY <1>1, SureParts, IdlePlaces
<1>3. Gesture("handle", e) \in Live
  BY GestureLive DEF Editing
<1>4. g \in Live /\ g.name = "handle" /\ g.placed = {} /\ g.of = e /\ g.before = c.model
  BY <1>2, <1>3, IdlePlaces DEF Live
<1> HIDE DEF g
<1>5. /\ c' \in Canvases /\ c'.live = g /\ c'.own = c.own /\ c'.deferred = c.deferred /\ c'.model = c.model
      /\ c'.selection = c.selection /\ c'.preview = c.preview
  BY <1>1, <1>2, <1>4 DEF Canvases
<1>6. c.model[e] # Gone
  BY <1>1, <1>2 DEF Alive
<1>7. Rewound(c').model = [c.model EXCEPT ![e] = c.model[e]]
  <2>1. PICK d : d = c'
    OBVIOUS
  <2>2. PICK h, model : h = g /\ model = c.model
    OBVIOUS
  <2>3. d \in Canvases /\ d.live = h /\ d.model = model
    BY <1>5, <2>1, <2>2
  <2>4. h.name = "handle" /\ model[h.of] # Gone
    BY <1>4, <1>6, <2>2
  <2>5. Rewound(d).model = Restored(h, model)
    BY <2>3, <2>4, RewoundOf
  <2>6. Restored(h, model) = [c.model EXCEPT ![e] = c.model[e]]
    BY <1>4, <2>2 DEF Restored
  <2> QED
    BY <2>1, <2>5, <2>6
<1>8. Rewound(c').model = c.model
  BY <1>2, <1>7 DEF Doc
<1>9. Rewound(c).model = c.model
  BY <1>1, <1>2, IdlePlaces, BareRewound
<1>10. Right(c'.own, c'.deferred, Rewound(c').model, server)
  BY <1>5, <1>8, <1>9, SureParts
<1>11. Hand(c', server)
  BY <1>2, <1>4, <1>5, <1>6 DEF Hand
<1> QED
  BY <1>2, <1>5, <1>10, <1>11 DEF Kept

\* The delete chord names what its own cancelling may have taken away: that is no harm.
LEMMA PressDeletesKept ==
    ASSUME Sure, NEW e \in Entities, NEW shift \in BOOLEAN, PressDeletes(e, shift)
    PROVE  Kept(c', server)
<1> DEFINE d == Begun(Idle)
           ops == Each({e}, Gone)
<1>1. c' = Commit(d, ops)
  BY DEF PressDeletes
<1>2. Idle \in Live /\ Idle.name \notin Editing
  BY IdleLive
<1>3. Fit(d, server) /\ d.preview = NoPreview /\ d.live = Idle /\ d \in Canvases /\ Counted(d)
  BY <1>2, SureBegun
<1>4. ops \in Ops /\ \A x \in DOMAIN ops : ops[x] = Gone
  BY EachOps DEF Each
<1> HIDE DEF d, ops
<1>5. Fit(c', server) /\ c'.preview = NoPreview
  BY <1>1, <1>3, <1>4, SureParts, CommitFit
<1>6. Asked(d, c')
  BY <1>1, <1>3, <1>4, CommitAsks DEF Commit
<1>7. c' \in Canvases /\ c'.live = Idle
  BY <1>3, <1>6 DEF Asked
<1> QED
  BY <1>5, <1>7, IdlePlaces, BareKept

LEMMA DoubleKept ==
    ASSUME Sure, NEW e \in Entities, NEW shift \in BOOLEAN, Double(e, shift)
    PROVE  Kept(c', server)
<1> DEFINE d == Cancel(c)
<1>1. c' = [d EXCEPT !.selection = {e} \cap Alive(d.model)]
  BY DEF Double, Looks
<1>2. d \in Canvases /\ d.live = Idle
  BY CancelRests, SureParts DEF Rests
<1>3. Fit(d, server) /\ d.preview = NoPreview
  BY CancelFit, SureParts DEF Sure
<1> HIDE DEF d
<1>4. /\ c' \in Canvases /\ c'.own = d.own /\ c'.deferred = d.deferred /\ c'.model = d.model
      /\ c'.selection \subseteq Alive(d.model) /\ c'.live = Idle /\ c'.preview = NoPreview
  BY <1>1, <1>2, <1>3 DEF Canvases
<1>5. Fit(c', server)
  BY <1>3, <1>4, FitSame
<1> QED
  BY <1>4, <1>5, IdlePlaces, BareKept

LEMMA PressInChainKept ==
    ASSUME Sure, PressInChain
    PROVE  Kept(c', server)
<1> DEFINE g == [c.live EXCEPT !.chained = FALSE]
<1>1. c \in Canvases /\ c.live \in Live /\ c.live.name = "link"
  BY SureParts DEF PressInChain
<1>2. g \in Live /\ g.name = "link" /\ g.placed = c.live.placed /\ g.via = c.live.via
  BY <1>1 DEF Live
<1>3. c' = [c EXCEPT !.live = g]
  BY <1>1 DEF PressInChain, Looks, Canvases
<1> HIDE DEF g
<1>4. /\ c' \in Canvases /\ c'.live = g /\ c'.own = c.own /\ c'.deferred = c.deferred /\ c'.model = c.model
      /\ c'.selection = c.selection /\ c'.preview = c.preview
  BY <1>1, <1>2, <1>3 DEF Canvases
<1>5. Rewound(c').model = Rewound(c).model
  <2>1. PICK d : d = c'
    OBVIOUS
  <2>2. PICK h, model : h = g /\ model = c.model
    OBVIOUS
  <2>3. d \in Canvases /\ d.live = h /\ d.model = model
    BY <1>4, <2>1, <2>2
  <2>4. Rewound(d).model = Undrawn(h, model)
    BY <1>2, <2>2, <2>3, RewoundOf
  <2>5. Rewound(c).model = Undrawn(c.live, c.model)
    BY <1>1, RewoundModel DEF Undrawn
  <2>6. Undrawn(h, model) = Undrawn(c.live, c.model)
    BY <1>2, <2>2 DEF Undrawn
  <2> QED
    BY <2>1, <2>4, <2>5, <2>6
<1>6. Right(c'.own, c'.deferred, Rewound(c').model, server)
  BY <1>2, <1>4, <1>5, SureParts
<1>7. Hand(c', server)
  <2>1. PICK d : d = c'
    OBVIOUS
  <2>2. /\ d.live.name = "link" /\ d.live.placed = c.live.placed /\ d.live.via = c.live.via
        /\ d.own = c.own /\ d.model = c.model /\ d.preview = c.preview
    BY <1>2, <1>4, <2>1
  <2>3. Hand(c, server)
    BY SureParts
  <2>4. Hand(d, server)
    BY <1>1, <2>2, <2>3 DEF Hand
  <2> QED
    BY <2>1, <2>4
<1> QED
  BY <1>4, <1>6, <1>7, SureParts DEF Kept

-----------------------------------------------------------------------------
(* Drags: what they leave is right                                          *)

\* What the Model holds of the gesture stays, and so does the gesture.
LEMMA SameKept ==
    ASSUME NEW d \in Canvases, NEW s, Kept(d, s), NEW e \in Canvases,
           e.live = d.live, e.model = d.model, e.own = d.own, e.deferred = d.deferred,
           e.selection \subseteq Alive(e.model), e.preview = NoPreview \/ e.live.name \in {"move", "clone"}
    PROVE  Kept(e, s)
<1>1. d.live \in Live
  BY CanvasParts
<1>2. Rewound(e).model = Rewound(d).model
  BY <1>1, UndoneSame DEF Rewound
<1>3. Hand(e, s)
  BY DEF Kept, Hand
<1> QED
  BY <1>2, <1>3 DEF Kept

LEMMA UnusedIs ==
    ASSUME Sure, NEW e \in Unused
    PROVE  e \in Fresh /\ e \in Entities /\ c.model[e] = Gone /\ server[e] = Gone /\ Untouched(c.own, e)
<1>1. e \in Fresh /\ e \in Entities /\ e \notin Alive(c.model) /\ e \notin Alive(server)
  BY EntitiesKnown DEF Unused
<1>2. \A r \in ToSet(c.own) : e \notin DOMAIN r.ops
  BY DEF Unused
<1>3. c.own \in Seq(Request)
  BY SureParts
<1>4. \A i \in 1 .. Len(c.own) : c.own[i] \in ToSet(c.own)
  BY <1>3 DEF ToSet
<1> QED
  BY <1>1, <1>2, <1>4 DEF Untouched, Alive

LEMMA StartMoveKept ==
    ASSUME Sure, StartMove
    PROVE  Kept(c', server)
<1> DEFINE moved == c.selection \cap Alive(c.model)
           g == IF moved = {} THEN Idle ELSE [c.live EXCEPT !.name = "move", !.moved = moved, !.before = c.model]
           shown == IF moved = {} THEN c.preview ELSE c.model
<1>1. /\ c \in Canvases /\ c.live \in Live /\ c.model \in Doc /\ c.live.name = "pending" /\ c.preview \in Doc
      /\ c.live.placed = {} /\ c.preview = NoPreview /\ c.selection \subseteq Alive(c.model)
  BY SureParts DEF StartMove
<1>2. moved \in SUBSET Entities
  BY DEF Alive
<1>3. g \in Live /\ g.placed = {} /\ (g.name = "move" \/ (g.name = "none" /\ shown = NoPreview))
  BY <1>1, <1>2, IdleLive, IdlePlaces DEF Live, Editing
<1>4. shown \in Doc
  BY <1>1
<1>5. c' = [c EXCEPT !.live = g, !.preview = shown]
  BY <1>1 DEF StartMove, Looks, Canvases
<1> HIDE DEF g, shown
<1>6. /\ c' \in Canvases /\ c'.live = g /\ c'.preview = shown /\ c'.own = c.own /\ c'.deferred = c.deferred
      /\ c'.model = c.model /\ c'.selection = c.selection
  BY <1>1, <1>3, <1>4, <1>5 DEF Canvases
<1>7. Fit(c, server)
  BY <1>1, KeptBare DEF Sure
<1>8. Fit(c', server)
  BY <1>1, <1>6, <1>7, FitSame
<1> QED
  BY <1>3, <1>6, <1>8, BareKept

LEMMA StartCloneKept ==
    ASSUME Sure, StartClone
    PROVE  Kept(c', server)
<1>1. /\ c \in Canvases /\ c.live \in Live /\ c.model \in Doc /\ c.live.name = "clone-pending"
      /\ c.live.placed = {} /\ c.preview = NoPreview /\ c.selection \subseteq Alive(c.model)
      /\ c.live.of \in Entities /\ c.selection \in SUBSET Entities
  BY SureParts DEF StartClone
<1>2. Fit(c, server)
  BY <1>1, KeptBare DEF Sure
<1>3. CASE c' = [c EXCEPT !.live = Idle]
  <2>1. /\ c' \in Canvases /\ c'.live = Idle /\ c'.preview = NoPreview /\ c'.own = c.own
        /\ c'.deferred = c.deferred /\ c'.model = c.model /\ c'.selection = c.selection
    BY <1>1, <1>3, IdleLive DEF Canvases
  <2>2. Fit(c', server)
    BY <1>1, <1>2, <2>1, FitSame
  <2> QED
    BY <2>1, <2>2, IdlePlaces, BareKept
<1> DEFINE picked == IF c.live.of \in c.selection THEN c.selection ELSE {c.live.of}
<1>4. CASE c.live.of \in Alive(c.model) /\ \E copies \in SUBSET Unused :
             c' = [c EXCEPT !.selection = picked,
                       !.live    = [@ EXCEPT !.name = "clone", !.moved = copies],
                       !.preview = Atop(Each(copies, c.model[c.live.of]), c.model)]
  <2>1. PICK copies \in SUBSET Unused :
             c' = [c EXCEPT !.selection = picked,
                       !.live    = [@ EXCEPT !.name = "clone", !.moved = copies],
                       !.preview = Atop(Each(copies, c.model[c.live.of]), c.model)]
    BY <1>4
  <2> DEFINE g == [c.live EXCEPT !.name = "clone", !.moved = copies]
             shown == Atop(Each(copies, c.model[c.live.of]), c.model)
  <2>2. copies \in SUBSET Entities
    BY <2>1, EntitiesKnown DEF Unused
  <2>3. g \in Live /\ g.name = "clone" /\ g.moved = copies /\ g.placed = {}
    BY <1>1, <2>2 DEF Live, Editing
  <2>4. c.model[c.live.of] \in Places \cup {Gone}
    BY <1>1 DEF Doc
  <2>5. shown \in Doc
    BY <1>1, <2>2, <2>4, EachOps, JoinedDoc
  <2>6. picked \in SUBSET Entities /\ picked \subseteq Alive(c.model)
    BY <1>1, <1>4
  <2>7. c' = [c EXCEPT !.selection = picked, !.live = g, !.preview = shown]
    BY <1>1, <2>1 DEF Canvases
  <2> HIDE DEF g, shown, picked
  <2>8. /\ c' \in Canvases /\ c'.live = g /\ c'.own = c.own /\ c'.deferred = c.deferred /\ c'.model = c.model
        /\ c'.selection = picked
    BY <1>1, <2>3, <2>5, <2>6, <2>7 DEF Canvases
  <2>9. PICK d : d = c'
    OBVIOUS
  <2>10. /\ d \in Canvases /\ d.live.name = "clone" /\ d.live.moved = copies /\ d.live.placed = {} /\ d.own = c.own
         /\ d.deferred = c.deferred /\ d.model = c.model /\ d.selection \subseteq Alive(d.model)
    BY <2>3, <2>6, <2>8, <2>9
  <2>11. Rewound(d).model = d.model
    BY <2>10, BareRewound
  <2>12. \A e \in copies : e \in Fresh /\ Untouched(c.own, e)
    BY <2>1, UnusedIs
  <2>13. Hand(d, server)
    BY <2>10, <2>12 DEF Hand
  <2>14. Kept(d, server)
    BY <1>2, <2>10, <2>11, <2>13 DEF Kept, Fit
  <2> QED
    BY <2>9, <2>14
<1> QED
  BY <1>3, <1>4 DEF StartClone, Looks

LEMMA DragKept ==
    ASSUME Sure, NEW v \in Places, Drag(v)
    PROVE  Kept(c', server)
<1> DEFINE shown == Atop(Each(c.live.moved, v), c.preview)
<1>1. /\ c \in Canvases /\ c.preview \in Doc /\ c.live.moved \in SUBSET Entities
      /\ c.selection \subseteq Alive(c.model) /\ c.live.name \in {"move", "clone"}
  BY SureParts DEF Drag
<1>2. shown \in Doc
  BY <1>1, EachOps, JoinedDoc
<1>3. c' = [c EXCEPT !.preview = shown]
  BY <1>1 DEF Drag, Looks, Canvases
<1> HIDE DEF shown
<1>4. /\ c' \in Canvases /\ c'.live = c.live /\ c'.own = c.own /\ c'.deferred = c.deferred /\ c'.model = c.model
      /\ c'.selection = c.selection
  BY <1>1, <1>2, <1>3 DEF Canvases
<1>5. Kept(c, server)
  BY DEF Sure
<1> QED
  BY <1>1, <1>4, <1>5, SameKept

\* A frame of a resize: rewound, it is where it was.
LEMMA DragHandleKept ==
    ASSUME Sure, NEW v \in Places, DragHandle(v)
    PROVE  Kept(c', server)
<1> DEFINE doc == [c.model EXCEPT ![c.live.of] = v]
           g == c.live
<1>1. /\ c \in Canvases /\ c.model \in Doc /\ c.selection \subseteq Alive(c.model) /\ g \in Live /\ g.of \in Entities
      /\ g.name = "handle" /\ g.placed = {} /\ c.preview = NoPreview /\ Hand(c, server)
  BY SureParts DEF DragHandle
<1>2. doc \in Doc
  BY <1>1 DEF Doc
<1>3. c' = [c EXCEPT !.model = doc]
  BY <1>1 DEF DragHandle, Looks, Canvases
<1>4. v # Gone /\ c.model[g.of] # Gone /\ g.before[g.of] # Gone
  BY <1>1, CanvasAssumption DEF Hand
<1>5. doc[g.of] = v /\ Alive(c.model) \subseteq Alive(doc)
  BY <1>1, <1>4 DEF Doc, Alive
<1>6. Restored(g, doc) = Restored(g, c.model)
  BY <1>1 DEF Doc, Restored
<1> HIDE DEF doc
<1>7. /\ c' \in Canvases /\ c'.live = g /\ c'.own = c.own /\ c'.deferred = c.deferred /\ c'.model = doc
      /\ c'.selection = c.selection /\ c'.preview = c.preview
  BY <1>1, <1>2, <1>3 DEF Canvases
<1>8. PICK d, h, model : d = c' /\ h = g /\ model = doc
  OBVIOUS
<1>9. /\ d \in Canvases /\ d.live = h /\ d.model = model /\ h.name = "handle" /\ model[h.of] # Gone
      /\ d.own = c.own /\ d.deferred = c.deferred /\ d.selection = c.selection /\ d.preview = c.preview
  BY <1>1, <1>4, <1>5, <1>7, <1>8
<1>10. Rewound(d).model = Restored(h, model)
  BY <1>9, RewoundOf
<1>11. Rewound(c).model = Restored(g, c.model)
  BY <1>1, <1>4, RewoundModel DEF Restored
<1>12. Rewound(d).model = Rewound(c).model
  BY <1>6, <1>8, <1>10, <1>11
<1>13. Hand(d, server)
  BY <1>1, <1>4, <1>8, <1>9 DEF Hand
<1>14. d.selection \subseteq Alive(d.model)
  BY <1>1, <1>5, <1>8, <1>9
<1>15. Kept(d, server)
  BY <1>9, <1>12, <1>13, <1>14, SureParts DEF Kept
<1> QED
  BY <1>8, <1>15

-----------------------------------------------------------------------------
\* The stop is shown and nobody's yet; without it the canvas is as it was.
LEMMA AddStopKept ==
    ASSUME Sure, NEW w \in Waypoints, AddStop(w)
    PROVE  Kept(c', server)
<1> DEFINE g == [c.live EXCEPT !.via = TRUE]
           h == [g EXCEPT !.placed = @ \cup {w}]
           doc == [c.model EXCEPT ![w] = Min(Places)]
<1>1. /\ c \in Canvases /\ c.model \in Doc /\ c.live \in Live /\ c.live.placed \in SUBSET Waypoints
      /\ c.selection \subseteq Alive(c.model) /\ c.preview = NoPreview /\ Hand(c, server) /\ c.live.name = "link"
  BY SureParts DEF AddStop
<1>2. /\ g \in Live /\ g.name = "link" /\ g.via /\ g.placed = c.live.placed
      /\ h \in Live /\ h.name = "link" /\ h.via /\ h.placed = c.live.placed \cup {w}
  BY <1>1 DEF Live
<1>3. w \in Entities /\ doc \in Doc /\ doc[w] # Gone /\ \A e \in Entities \ {w} : doc[e] = c.model[e]
  BY <1>1, LowestPlace, EntitiesKnown, CanvasAssumption DEF Doc
<1>4. \/ (w \in Alive(c.model) /\ c' = [c EXCEPT !.live = g])
      \/ (w \in Unused /\ c' = [c EXCEPT !.live = h, !.model = doc])
  BY <1>1, AddStopShape
<1>5. Rewound(c).model = Undrawn(c.live, c.model)
  BY <1>1, RewoundModel DEF Undrawn
<1>6. \A e \in c.live.placed : e \in Entities /\ c.model[e] # Gone /\ server[e] = Gone /\ Untouched(c.own, e)
  BY <1>1, EntitiesKnown DEF Hand
<1>7. CASE c' = [c EXCEPT !.live = g]
  <2>1. Undrawn(g, c.model) = Undrawn(c.live, c.model)
    BY <1>2 DEF Undrawn
  <2> HIDE DEF g
  <2>2. PICK d, k, model : d = c' /\ k = g /\ model = c.model
    OBVIOUS
  <2>3. /\ d \in Canvases /\ d.live = k /\ d.model = model /\ k.name = "link" /\ d.own = c.own
        /\ d.deferred = c.deferred /\ d.selection = c.selection /\ d.preview = c.preview
        /\ k.via /\ k.placed = c.live.placed
    BY <1>1, <1>2, <1>7, <2>2 DEF Canvases
  <2>4. Rewound(d).model = Undrawn(k, model)
    BY <2>3, RewoundOf
  <2>5. Rewound(d).model = Rewound(c).model
    BY <1>5, <2>1, <2>2, <2>4
  <2>6. Hand(d, server)
    BY <1>1, <1>6, <2>2, <2>3 DEF Hand
  <2>7. Kept(d, server)
    BY <1>1, <2>2, <2>3, <2>5, <2>6, SureParts DEF Kept
  <2> QED
    BY <2>2, <2>7
<1>8. CASE w \in Unused /\ c' = [c EXCEPT !.live = h, !.model = doc]
  <2>1. c.model[w] = Gone /\ server[w] = Gone /\ Untouched(c.own, w)
    BY <1>8, UnusedIs
  <2>2. Undrawn(h, doc) = Undrawn(c.live, c.model)
    <3>1. \A e \in Entities : (IF e \in h.placed THEN Gone ELSE doc[e])
                                = (IF e \in c.live.placed THEN Gone ELSE c.model[e])
      BY <1>2, <1>3, <2>1
    <3> QED
      BY <3>1, Zenon DEF Undrawn
  <2>3. Alive(c.model) \subseteq Alive(doc)
    BY <1>3 DEF Alive
  <2> HIDE DEF h, doc
  <2>4. PICK d, k, model : d = c' /\ k = h /\ model = doc
    OBVIOUS
  <2>5. /\ d \in Canvases /\ d.live = k /\ d.model = model /\ k.name = "link" /\ d.own = c.own
        /\ d.deferred = c.deferred /\ d.selection = c.selection /\ d.preview = c.preview
        /\ k.via /\ k.placed = c.live.placed \cup {w}
    BY <1>1, <1>2, <1>3, <1>8, <2>4 DEF Canvases
  <2>6. Rewound(d).model = Undrawn(k, model)
    BY <2>5, RewoundOf
  <2>7. Rewound(d).model = Rewound(c).model
    BY <1>5, <2>2, <2>4, <2>6
  <2>8. \A e \in k.placed : model[e] # Gone /\ server[e] = Gone /\ Untouched(c.own, e)
    BY <1>3, <1>6, <2>1, <2>4, <2>5
  <2>9. Hand(d, server)
    BY <1>1, <2>5, <2>8 DEF Hand
  <2>10. d.selection \subseteq Alive(d.model)
    BY <1>1, <2>3, <2>4, <2>5
  <2>11. Kept(d, server)
    BY <2>5, <2>7, <2>9, <2>10, SureParts DEF Kept
  <2> QED
    BY <2>4, <2>11
<1> QED
  BY <1>4, <1>7, <1>8

\* What the drag has drawn so far, and a gesture that draws on from the stop.
LEMMA DrawsOn ==
    ASSUME NEW d \in Canvases, NEW s, Fit(d, s), d.preview = NoPreview, NEW w \in Entities,
           NEW e, e = [d EXCEPT !.live = LinkFrom(w)]
    PROVE  Kept(e, s)
<1>1. LinkFrom(w) \in Live /\ LinkFrom(w).placed = {} /\ LinkFrom(w).name = "link"
  BY LinkFromLive, IdlePlaces
<1>2. /\ e \in Canvases /\ e.live = LinkFrom(w) /\ e.own = d.own /\ e.deferred = d.deferred
      /\ e.model = d.model /\ e.selection = d.selection /\ e.preview = d.preview
  BY <1>1 DEF Canvases
<1>3. Fit(e, s)
  BY <1>2 DEF Fit
<1> QED
  BY <1>1, <1>2, <1>3, BareKept

LEMMA ChainThroughNodeKept ==
    ASSUME Sure, NEW w \in Waypoints, ChainThroughNode(w)
    PROVE  Kept(c', server)
<1> DEFINE doc == [c.model EXCEPT ![w] = Min(Places)]
           hop == c.live.placed \cup {w}
           live == [c EXCEPT !.model = doc]
           model == Rewound(c).model
<1>1. /\ c \in Canvases /\ c.model \in Doc /\ c.live \in Live /\ c.live.placed \in SUBSET Waypoints /\ Counted(c)
      /\ c.selection \subseteq Alive(c.model) /\ c.preview = NoPreview /\ Hand(c, server) /\ c.live.name = "link"
      /\ Right(c.own, c.deferred, model, server) /\ server \in Doc
  BY SureParts DEF ChainThroughNode, Drawing
<1>2. w \in Entities /\ doc \in Doc /\ doc[w] # Gone /\ \A e \in Entities \ {w} : doc[e] = c.model[e]
  BY <1>1, LowestPlace, EntitiesKnown, CanvasAssumption DEF Doc
<1>3. c.model[w] = Gone /\ server[w] = Gone /\ Untouched(c.own, w)
  BY UnusedIs DEF ChainThroughNode
<1>4. \A e \in c.live.placed : e \in Entities /\ c.model[e] # Gone /\ server[e] = Gone /\ Untouched(c.own, e)
  BY <1>1, EntitiesKnown DEF Hand
<1>5. model \in Doc /\ model = [e \in Entities |-> IF e \in c.live.placed THEN Gone ELSE c.model[e]]
  BY <1>1, RewoundModel
<1>6. [c EXCEPT !.model[w] = Min(Places)] = live
  BY <1>1 DEF Canvases
<1>7. PICK refused \in BOOLEAN :
         c' = [CommitDrawn(live, Restrict(live.model, hop), refused) EXCEPT !.live = LinkFrom(w)]
  BY <1>6 DEF ChainThroughNode
<1>8. /\ live \in Canvases /\ live.model = doc /\ live.own = c.own /\ live.deferred = c.deferred
      /\ live.selection = c.selection /\ live.preview = c.preview
  <2> HIDE DEF doc
  <2> QED
    BY <1>1, <1>2 DEF Canvases
<1>9. \A e \in Entities \ hop : doc[e] = model[e]
  BY <1>2, <1>5
<1>10. \A e \in hop : doc[e] # Gone /\ server[e] = Gone /\ Untouched(c.own, e)
  BY <1>2, <1>3, <1>4
<1>11. hop \in SUBSET Waypoints /\ Alive(c.model) \subseteq Alive(doc)
  BY <1>1, <1>2 DEF Alive
<1> HIDE DEF live, doc, hop, model
<1> DEFINE sent == CommitDrawn(live, Restrict(live.model, hop), refused)
<1>12. Counted(live) /\ Right(live.own, live.deferred, model, server) /\ live.selection \subseteq Alive(live.model)
  BY <1>1, <1>8, <1>11 DEF Counted, Waiting
<1>13. /\ \A e \in Entities \ hop : live.model[e] = model[e]
       /\ \A e \in hop : live.model[e] # Gone /\ server[e] = Gone /\ Untouched(live.own, e)
  BY <1>8, <1>9, <1>10
<1>14. Fit(sent, server) /\ sent.preview = live.preview
  BY <1>1, <1>5, <1>8, <1>11, <1>12, <1>13, DrawnFit
<1>15. Restrict(live.model, hop) \in Ops
  BY <1>2, <1>8, <1>11, EntitiesKnown, RestrictedDoc
<1>16. sent \in Canvases
  BY <1>8, <1>15, CommitAsks DEF Asked
<1> HIDE DEF sent
<1>17. c' = [sent EXCEPT !.live = LinkFrom(w)]
  BY <1>7 DEF sent
<1>18. PICK d : d = sent
  OBVIOUS
<1>19. d \in Canvases /\ Fit(d, server) /\ d.preview = NoPreview /\ c' = [d EXCEPT !.live = LinkFrom(w)]
  BY <1>1, <1>8, <1>14, <1>16, <1>17, <1>18
<1> QED
  BY <1>2, <1>19, DrawsOn

-----------------------------------------------------------------------------
(* Releases: what they leave is right                                       *)

\* A gesture is over, and what it leaves before Sync hears of it is right.
Leaves(d) == Closes(c, d) /\ Fit(d, server) /\ d.live = Idle

LEMMA DoneKept ==
    ASSUME Sure, NEW d, Leaves(d), Done(d)
    PROVE  Kept(c', server)
<1>1. c' = Finish(c, d)
  BY DEF Done
<1>2. d.live.placed = {} /\ d.live.name = "none"
  BY IdlePlaces DEF Leaves
<1>3. ~Gesturing(d)
  BY IdleSilent DEF Leaves
<1>4. Good(c) /\ server \in Doc /\ Closes(c, d) /\ Fit(d, server)
  BY SureParts DEF Sure, Leaves
<1>5. Kept(Finish(c, d), server)
  BY <1>2, <1>3, <1>4, FinishKept
<1> QED
  BY <1>1, <1>5

\* The same, where a chain goes on.
LEMMA DoneDrawsOn ==
    ASSUME Sure, NEW d, Leaves(d), d.preview = NoPreview, ~c.readOnly, NEW t \in Entities,
           Done([d EXCEPT !.live = LinkFrom(t)])
    PROVE  Kept(c', server)
<1> DEFINE e == [d EXCEPT !.live = LinkFrom(t)]
<1>1. d \in Canvases
  BY DEF Leaves, Closes
<1>2. /\ e.live = LinkFrom(t) /\ e.own = d.own /\ e.deferred = d.deferred
      /\ e.model = d.model /\ e.selection = d.selection /\ e.preview = NoPreview
  BY <1>1 DEF Canvases
<1>3. Closes(c, e)
  BY ChainCloses DEF Leaves
<1>4. c' = Finish(c, e)
  BY DEF Done
<1> HIDE DEF e
<1>5. Fit(e, server)
  BY <1>2 DEF Fit, Leaves
<1>6. e.live.placed = {} /\ e.live.name = "link"
  BY <1>2, IdlePlaces
<1>7. Good(c) /\ server \in Doc
  BY SureParts DEF Sure
<1>8. Kept(Finish(c, e), server)
  BY <1>2, <1>3, <1>5, <1>6, <1>7, FinishKept
<1> QED
  BY <1>4, <1>8

LEMMA LeavesSelects ==
    ASSUME NEW d, Leaves(d), NEW picked, picked \subseteq Alive(d.model)
    PROVE  Leaves([d EXCEPT !.selection = picked])
<1> DEFINE e == [d EXCEPT !.selection = picked]
<1>1. d \in Canvases /\ picked \in SUBSET Entities
  BY DEF Leaves, Closes, Alive
<1>2. Closes(c, e)
  BY <1>1, ClosesSelects DEF Leaves
<1>3. /\ e.live = d.live /\ e.own = d.own /\ e.deferred = d.deferred /\ e.model = d.model /\ e.selection = picked
  BY <1>1 DEF Canvases
<1> HIDE DEF e
<1>4. Fit(e, server) /\ e.live = Idle
  BY <1>3 DEF Fit, Leaves
<1>5. Leaves(e)
  BY <1>2, <1>4 DEF Leaves
<1> QED
  BY <1>5 DEF e

LEMMA LeavesCommit ==
    ASSUME Sure, ~c.readOnly, NEW d, Leaves(d), NEW ops \in Ops,
           \A e \in DOMAIN ops : ops[e] = Gone \/ d.model[e] # Gone \/ Untouched(d.own, e)
    PROVE  Leaves(Commit(d, ops))
<1>1. d \in Canvases /\ Counted(d) /\ Fit(d, server) /\ Closes(c, d) /\ d.live = Idle
  BY DEF Leaves, Closes
<1>2. Fit(Commit(d, ops), server)
  BY <1>1, SureParts, CommitFit
<1>3. Closes(c, Commit(d, ops))
  BY <1>1, ClosesCommit DEF Commit
<1>4. Asked(d, Commit(d, ops))
  BY <1>1, CommitAsks DEF Commit
<1>5. Commit(d, ops).live = Idle
  BY <1>1, <1>4 DEF Asked
<1> QED
  BY <1>2, <1>3, <1>5 DEF Leaves

LEMMA EndedIs ==
    ASSUME Sure
    PROVE  /\ Closes(c, Ended) /\ Ended \in Canvases /\ Ended.live = Idle /\ Ended.model = c.model
           /\ Ended.selection = c.selection /\ Ended.own = c.own /\ Ended.deferred = c.deferred
           /\ Ended.preview = c.preview
<1>1. c \in Canvases
  BY SureParts
<1>2. Closes(c, Ended) /\ Ended \in Canvases /\ Ended.live = Idle /\ Ended.model = c.model /\ Ended.selection = c.selection
  BY EndedCloses DEF Sure
<1>3. Ended.own = c.own /\ Ended.deferred = c.deferred /\ Ended.preview = c.preview
  BY <1>1 DEF Ended, Canvases
<1> QED
  BY <1>2, <1>3

\* A gesture with nothing of it in the Model leaves the canvas as it is.
LEMMA EndedLeaves ==
    ASSUME Sure, c.live.placed = {}, c.live.name # "handle"
    PROVE  Leaves(Ended)
<1>1. c \in Canvases /\ Right(c.own, c.deferred, Rewound(c).model, server) /\ c.selection \subseteq Alive(c.model)
  BY SureParts
<1>2. Rewound(c).model = c.model
  BY <1>1, BareRewound
<1>3. Fit(Ended, server)
  BY <1>1, <1>2, EndedIs DEF Fit
<1> QED
  BY <1>3, EndedIs DEF Leaves

LEMMA ReleaseMoveKept ==
    ASSUME Sure, ReleaseMove
    PROVE  Kept(c', server)
<1> DEFINE left == c.live.moved \cap Alive(c.model)
           ops == Restrict(c.preview, left)
<1>1. Done(Ended) \/ Done(Commit(Ended, ops))
  BY DEF ReleaseMove
<1>2. ~c.readOnly
  BY EditsUnlocked DEF ReleaseMove, Editing, Sure
<1>3. c.live.placed = {} /\ c.live.name = "move" /\ c.preview \in Doc /\ left \in SUBSET Entities
  BY SureParts DEF ReleaseMove, Alive
<1>4. Leaves(Ended)
  BY <1>3, EndedLeaves
<1>5. ops \in Ops /\ DOMAIN ops = left
  BY <1>3, RestrictedDoc, RestrictAt
<1>6. \A e \in left : Ended.model[e] # Gone
  BY EndedIs DEF Alive
<1> HIDE DEF ops
<1>7. Leaves(Commit(Ended, ops))
  BY <1>2, <1>4, <1>5, <1>6, LeavesCommit
<1> QED
  BY <1>1, <1>4, <1>7, DoneKept

\* The copies are new: no request ever named one.
LEMMA ReleaseCloneKept ==
    ASSUME Sure, ReleaseClone
    PROVE  Kept(c', server)
<1> DEFINE ops == Restrict(c.preview, c.live.moved)
           d == Commit(Ended, ops)
           picked == c.live.moved \cap Alive(d.model)
<1>1. Done([d EXCEPT !.selection = picked])
  BY DEF ReleaseClone
<1>2. ~c.readOnly
  BY EditsUnlocked DEF ReleaseClone, Editing, Sure
<1>3. /\ c.live.placed = {} /\ c.live.name = "clone" /\ c.preview \in Doc /\ c.live.moved \in SUBSET Entities
      /\ Hand(c, server)
  BY SureParts DEF ReleaseClone
<1>4. Leaves(Ended)
  BY <1>3, EndedLeaves
<1>5. ops \in Ops /\ DOMAIN ops = c.live.moved
  BY <1>3, RestrictedDoc, RestrictAt
<1>6. \A e \in c.live.moved : Untouched(Ended.own, e)
  BY <1>3, EndedIs DEF Hand
<1> HIDE DEF ops
<1>7. Leaves(d)
  BY <1>2, <1>4, <1>5, <1>6, LeavesCommit
<1>8. picked \subseteq Alive(d.model)
  OBVIOUS
<1> HIDE DEF d, picked
<1>9. Leaves([d EXCEPT !.selection = picked])
  BY <1>7, <1>8, LeavesSelects
<1> QED
  BY <1>1, <1>9, DoneKept

\* Rewound first, the zone is where it stood.
LEMMA ReleaseHandleKept ==
    ASSUME Sure, NEW v \in Places, ReleaseHandle(v)
    PROVE  Kept(c', server)
<1> DEFINE g == c.live
           rewound == UndoGesture(Ended, g)
           ops == Each({g.of}, v)
<1>1. Done(rewound) \/ Done(Commit(rewound, ops))
  BY DEF ReleaseHandle
<1>2. ~c.readOnly
  BY EditsUnlocked DEF ReleaseHandle, Editing, Sure
<1>3. /\ c \in Canvases /\ g \in Live /\ g.of \in Entities /\ g.name = "handle" /\ c.model \in Doc
      /\ Hand(c, server) /\ c.selection \subseteq Alive(c.model)
      /\ Right(c.own, c.deferred, Rewound(c).model, server)
  BY SureParts DEF ReleaseHandle
<1>4. c.model[g.of] # Gone /\ g.before[g.of] # Gone
  BY <1>3 DEF Hand
<1>5. ops \in Ops /\ DOMAIN ops = {g.of}
  BY <1>3, EachOps DEF Each
<1>6. /\ Closes(c, Ended) /\ Ended \in Canvases /\ Ended.live = Idle /\ Ended.model = c.model
      /\ Ended.selection = c.selection /\ Ended.own = c.own /\ Ended.deferred = c.deferred
  BY EndedIs
<1>7. Around(Ended, rewound) /\ rewound.live = Ended.live
  BY <1>3, <1>6, UndoGestureAround
<1>8. rewound.model = Rewound(c).model
  BY <1>3, <1>6, UndoneSame DEF Rewound
<1>9. Rewound(c).model[g.of] # Gone
  BY <1>3, <1>4, RewoundModel DEF Doc
<1>10. rewound.own = c.own /\ rewound.deferred = c.deferred /\ rewound.selection \subseteq Alive(rewound.model)
  BY <1>3, <1>6, RewoundIs
<1> HIDE DEF ops, rewound
<1>11. Closes(c, rewound)
  BY <1>6, <1>7, ClosesKeepsLive
<1>12. Fit(rewound, server)
  BY <1>3, <1>8, <1>10 DEF Fit
<1>13. Leaves(rewound)
  BY <1>6, <1>7, <1>11, <1>12 DEF Leaves
<1>14. \A e \in DOMAIN ops : rewound.model[e] # Gone
  BY <1>5, <1>8, <1>9
<1>15. Leaves(Commit(rewound, ops))
  BY <1>2, <1>5, <1>13, <1>14, LeavesCommit
<1> QED
  BY <1>1, <1>13, <1>15, DoneKept

\* A commit of one thing new, which is then what is selected.
LEMMA NewKept ==
    ASSUME Sure, ~c.readOnly, Leaves(Ended), NEW w \in Unused, NEW v \in Places,
           LET d == Commit(Ended, Each({w}, v))
           IN  Done([d EXCEPT !.selection = {w} \cap Alive(d.model)])
    PROVE  Kept(c', server)
<1> DEFINE ops == Each({w}, v)
           d == Commit(Ended, ops)
           picked == {w} \cap Alive(d.model)
<1>1. Done([d EXCEPT !.selection = picked])
  OBVIOUS
<1>2. w \in Entities /\ Untouched(Ended.own, w)
  BY UnusedIs, EndedIs
<1>3. ops \in Ops /\ DOMAIN ops = {w}
  BY <1>2, EachOps DEF Each
<1> HIDE DEF ops
<1>4. Leaves(d)
  BY <1>2, <1>3, LeavesCommit
<1>5. picked \subseteq Alive(d.model)
  OBVIOUS
<1> HIDE DEF d, picked
<1>6. Leaves([d EXCEPT !.selection = picked])
  BY <1>4, <1>5, LeavesSelects
<1> QED
  BY <1>1, <1>6, DoneKept

LEMMA ReleaseBoxKept ==
    ASSUME Sure, NEW area \in BOOLEAN, ReleaseBox(area)
    PROVE  Kept(c', server)
<1>1. ~c.readOnly
  BY EditsUnlocked DEF ReleaseBox, Editing, Sure
<1>2. c.live.placed = {} /\ c.live.name = "box"
  BY SureParts DEF ReleaseBox
<1>3. Leaves(Ended)
  BY <1>2, EndedLeaves
<1>4. CASE area
  <2> DEFINE d == Commit(Ended, Each({Drawn}, Min(Places)))
  <2>1. Drawn \in Unused /\ Done([d EXCEPT !.selection = {Drawn} \cap Alive(d.model)])
    BY <1>4 DEF ReleaseBox
  <2> QED
    BY <1>1, <1>3, <2>1, LowestPlace, NewKept
<1>5. CASE ~area
  <2>1. Done(Ended)
    BY <1>5 DEF ReleaseBox
  <2> QED
    BY <1>3, <2>1, DoneKept
<1> QED
  BY <1>4, <1>5

LEMMA StampClickedKept ==
    ASSUME Sure, NEW w \in Waypoints, StampClicked(w)
    PROVE  Kept(c', server)
<1> DEFINE d == Commit(Ended, Each({w}, Min(Places)))
<1>1. w \in Unused /\ Done([d EXCEPT !.selection = {w} \cap Alive(d.model)]) /\ ~c.readOnly
  BY DEF StampClicked
<1>2. c.live.placed = {} /\ c.live.name = "marquee"
  BY SureParts DEF StampClicked
<1>3. Leaves(Ended)
  BY <1>2, EndedLeaves
<1> QED
  BY <1>1, <1>3, LowestPlace, NewKept

LEMMA ReleaseMarqueeKept ==
    ASSUME Sure, NEW shift \in BOOLEAN, ReleaseMarquee(shift)
    PROVE  Kept(c', server)
<1>1. PICK picked \in SUBSET (Alive(c.model) \ Zones) :
          Done([Ended EXCEPT !.selection = IF shift THEN @ \cup picked ELSE picked])
  BY DEF ReleaseMarquee
<1> DEFINE all == IF shift THEN Ended.selection \cup picked ELSE picked
<1>2. c.live.placed = {} /\ c.live.name = "marquee" /\ c.selection \subseteq Alive(c.model)
  BY SureParts DEF ReleaseMarquee
<1>3. Leaves(Ended)
  BY <1>2, EndedLeaves
<1>4. Ended \in Canvases /\ all \subseteq Alive(Ended.model)
  BY <1>2, EndedIs
<1>5. Done([Ended EXCEPT !.selection = all])
  BY <1>1, <1>4 DEF Canvases
<1> HIDE DEF all
<1>6. Leaves([Ended EXCEPT !.selection = all])
  BY <1>3, <1>4, LeavesSelects
<1> QED
  BY <1>5, <1>6, DoneKept

LEMMA ReleasePressKept ==
    ASSUME Sure, ReleasePress
    PROVE  Kept(c', server)
<1> DEFINE picked == SymDiff(Ended.selection, {c.live.of})
<1>1. Ended \in Canvases /\ Ended.selection = c.selection /\ Ended.model = c.model
  BY EndedIs
<1>2. Done(Ended) \/ (c.live.of \in Alive(c.model) /\ Done([Ended EXCEPT !.selection = picked]))
  BY <1>1 DEF ReleasePress, Canvases
<1>3. c.live.placed = {} /\ c.live.name # "handle" /\ c.selection \subseteq Alive(c.model)
  BY SureParts DEF ReleasePress
<1>4. Leaves(Ended)
  BY <1>3, EndedLeaves
<1>5. CASE c.live.of \in Alive(c.model) /\ Done([Ended EXCEPT !.selection = picked])
  <2>1. picked \subseteq Alive(Ended.model)
    BY <1>1, <1>3, <1>5 DEF SymDiff
  <2> HIDE DEF picked
  <2>2. Leaves([Ended EXCEPT !.selection = picked])
    BY <1>4, <2>1, LeavesSelects
  <2> QED
    BY <1>5, <2>2, DoneKept
<1> QED
  BY <1>2, <1>4, <1>5, DoneKept

-----------------------------------------------------------------------------
\* A link drag: what it placed is all that is shown beyond what is right.
LEMMA DrawingIs ==
    ASSUME Sure, c.live.name = "link"
    PROVE  /\ c.live.placed \in SUBSET Waypoints /\ c.preview = NoPreview /\ ~c.readOnly
           /\ Rewound(c).model \in Doc /\ Rewound(c).model = Undrawn(c.live, c.model)
           /\ Right(c.own, c.deferred, Rewound(c).model, server) /\ c.selection \subseteq Alive(c.model)
           /\ \A e \in c.live.placed : c.model[e] # Gone /\ server[e] = Gone /\ Untouched(c.own, e)
           /\ ~c.live.via => c.live.placed = {}
<1>1. c \in Canvases /\ Hand(c, server) /\ c.live.placed \in SUBSET Waypoints /\ c.preview = NoPreview
  BY SureParts
<1>2. ~c.readOnly
  BY EditsUnlocked DEF Editing, Sure
<1>3. Rewound(c).model \in Doc /\ Rewound(c).model = Undrawn(c.live, c.model)
  BY <1>1, RewoundModel DEF Undrawn
<1> QED
  BY <1>1, <1>2, <1>3, SureParts DEF Hand

LEMMA CleanupIs ==
    ASSUME Sure, NEW placed
    PROVE  LET d == CleanupRoute(Ended, placed) IN
           /\ d.model = [e \in Entities |-> IF e \in placed THEN Gone ELSE c.model[e]]
           /\ d.selection \subseteq Alive(d.model) /\ d.own = c.own /\ d.deferred = c.deferred
           /\ d.preview = c.preview /\ d.live = Idle /\ d \in Canvases /\ Closes(c, d)
<1> DEFINE doc == [e \in Entities |-> IF e \in placed THEN Gone ELSE Ended.model[e]]
           d == CleanupRoute(Ended, placed)
<1>1. /\ Ended \in Canvases /\ Ended.live = Idle /\ Ended.model = c.model /\ Ended.own = c.own
      /\ Ended.deferred = c.deferred /\ Ended.preview = c.preview /\ c.model \in Doc
  BY EndedIs, SureParts
<1>2. doc \in Doc
  BY <1>1 DEF Doc
<1>3. d = Write(Ended, doc)
  BY DEF CleanupRoute
<1>4. doc = [e \in Entities |-> IF e \in placed THEN Gone ELSE c.model[e]]
  BY <1>1
<1>5. Closes(c, d) /\ d \in Canvases
  BY CleanupCloses DEF Sure
<1> HIDE DEF doc, d
<1>6. /\ d.model = doc /\ d.preview = Ended.preview /\ d.selection = Ended.selection \cap Alive(doc)
      /\ d.live = Ended.live /\ d.own = Ended.own /\ d.deferred = Ended.deferred
  BY <1>1, <1>2, <1>3, WritePrunes
<1>7. /\ d.model = [e \in Entities |-> IF e \in placed THEN Gone ELSE c.model[e]]
      /\ d.selection \subseteq Alive(d.model) /\ d.own = c.own /\ d.deferred = c.deferred
      /\ d.preview = c.preview /\ d.live = Idle /\ d \in Canvases /\ Closes(c, d)
  BY <1>1, <1>4, <1>5, <1>6
<1> QED
  BY <1>7 DEF d

LEMMA CleanupLeaves ==
    ASSUME Sure, c.live.name = "link"
    PROVE  Leaves(CleanupRoute(Ended, c.live.placed))
<1> DEFINE d == CleanupRoute(Ended, c.live.placed)
<1>1. /\ d.model = [e \in Entities |-> IF e \in c.live.placed THEN Gone ELSE c.model[e]]
      /\ d.selection \subseteq Alive(d.model) /\ d.own = c.own /\ d.deferred = c.deferred
      /\ d.live = Idle /\ Closes(c, d)
  BY CleanupIs
<1> HIDE DEF d
<1>2. d.model = Rewound(c).model
  BY <1>1, DrawingIs DEF Undrawn
<1>3. Fit(d, server)
  BY <1>1, <1>2, DrawingIs DEF Fit
<1>4. Leaves(d)
  BY <1>1, <1>3 DEF Leaves
<1> QED
  BY <1>4 DEF d

\* The judge refuses the link: what is kept of the route is committed, the rest goes.
LEMMA JudgedLeaves ==
    ASSUME Sure, c.live.name = "link", NEW keep \in SUBSET c.live.placed, NEW refused \in BOOLEAN
    PROVE  Leaves(Judged(keep, refused))
<1> DEFINE rest == c.live.placed \ keep
           d == CleanupRoute(Ended, rest)
           model == Rewound(c).model
           sent == CommitDrawn(d, Restrict(d.model, keep), refused)
<1>1. CASE keep = {}
  <2>1. rest = c.live.placed /\ Judged(keep, refused) = d
    BY <1>1 DEF Judged
  <2>2. Leaves(d)
    BY <2>1, CleanupLeaves
  <2> QED
    BY <2>1, <2>2
<1>2. CASE keep # {}
  <2>1. /\ d.model = [e \in Entities |-> IF e \in rest THEN Gone ELSE c.model[e]]
        /\ d.selection \subseteq Alive(d.model) /\ d.own = c.own /\ d.deferred = c.deferred
        /\ d.live = Idle /\ d \in Canvases /\ Closes(c, d)
    BY CleanupIs
  <2>2. /\ model \in Doc /\ model = Undrawn(c.live, c.model)
        /\ Right(c.own, c.deferred, model, server)
        /\ \A e \in c.live.placed : c.model[e] # Gone /\ server[e] = Gone /\ Untouched(c.own, e)
        /\ ~c.readOnly /\ keep \in SUBSET Waypoints
    BY DrawingIs
  <2>3. \A e \in keep : e \in Entities /\ d.model[e] = c.model[e]
    BY <2>1, <2>2, EntitiesKnown
  <2>4. Restrict(c.model, keep) = Restrict(d.model, keep)
    BY <2>3 DEF Restrict
  <2>5. Judged(keep, refused) = CommitDrawn(d, Restrict(c.model, keep), refused)
    BY <1>2 DEF Judged
  <2>6. \A e \in Entities \ keep : d.model[e] = model[e]
    BY <2>1, <2>2 DEF Undrawn
  <2>7. \A e \in keep : d.model[e] # Gone /\ server[e] = Gone /\ Untouched(d.own, e)
    BY <2>1, <2>2, <2>3
  <2>8. Judged(keep, refused) = sent
    BY <2>4, <2>5
  <2> HIDE DEF d, model
  <2>9. Counted(d) /\ Right(d.own, d.deferred, model, server) /\ server \in Doc
    BY <2>1, <2>2, SureParts DEF Closes
  <2>10. Fit(sent, server) /\ sent.live = d.live
    <3>1. /\ d \in Canvases /\ d.selection \subseteq Alive(d.model) /\ model \in Doc
          /\ keep \in SUBSET Waypoints
      BY <2>1, <2>2
    <3> QED
      BY <2>6, <2>7, <2>9, <3>1, DrawnFit
  <2>11. d.model \in Doc /\ keep \in SUBSET Entities
    BY <2>1, <2>2, CanvasParts, EntitiesKnown
  <2>12. Restrict(d.model, keep) \in Ops
    BY <2>11, RestrictedDoc
  <2>13. Closes(c, sent)
    BY <2>1, <2>2, <2>12, ClosesCommit
  <2> HIDE DEF sent
  <2>14. Leaves(sent)
    BY <2>1, <2>10, <2>13 DEF Leaves
  <2> QED
    BY <2>8, <2>14
<1> QED
  BY <1>1, <1>2

LEMMA LinkedLeaves ==
    ASSUME Sure, c.live.name = "link", NEW refused \in BOOLEAN
    PROVE  Leaves(Linked(refused)) /\ Linked(refused).preview = NoPreview
<1> DEFINE d == Ended
           keep == c.live.placed
           model == Rewound(c).model
           sent == CommitDrawn(d, Restrict(d.model, keep), refused)
<1>1. /\ Closes(c, d) /\ d \in Canvases /\ d.live = Idle /\ d.model = c.model
      /\ d.selection = c.selection /\ d.own = c.own /\ d.deferred = c.deferred /\ d.preview = c.preview
  BY EndedIs
<1>2. /\ keep \in SUBSET Waypoints /\ c.preview = NoPreview /\ ~c.readOnly
      /\ model \in Doc /\ model = Undrawn(c.live, c.model)
      /\ Right(c.own, c.deferred, model, server) /\ c.selection \subseteq Alive(c.model)
      /\ \A e \in keep : c.model[e] # Gone /\ server[e] = Gone /\ Untouched(c.own, e)
  BY DrawingIs
<1>3. Linked(refused) = [sent EXCEPT !.selection = {}]
  BY <1>1 DEF Linked
<1>4. \A e \in Entities \ keep : d.model[e] = model[e]
  BY <1>1, <1>2 DEF Undrawn
<1> HIDE DEF d, model, keep
<1>5. /\ \A e \in keep : d.model[e] # Gone /\ server[e] = Gone /\ Untouched(d.own, e)
      /\ Counted(d) /\ Right(d.own, d.deferred, model, server) /\ server \in Doc
      /\ d.selection \subseteq Alive(d.model)
  BY <1>1, <1>2, SureParts DEF Closes
<1>6. Fit(sent, server) /\ sent.live = d.live /\ sent.preview = d.preview
  BY <1>1, <1>2, <1>4, <1>5, DrawnFit
<1>7. d.model \in Doc /\ keep \in SUBSET Entities
  BY <1>1, <1>2, CanvasParts, EntitiesKnown
<1>8. Restrict(d.model, keep) \in Ops
  BY <1>7, RestrictedDoc
<1>9. Closes(c, sent)
  BY <1>1, <1>2, <1>8, ClosesCommit
<1> HIDE DEF sent
<1>10. Leaves(sent) /\ sent \in Canvases
  BY <1>1, <1>6, <1>9 DEF Leaves, Closes
<1>11. Leaves([sent EXCEPT !.selection = {}])
  BY <1>10, LeavesSelects
<1>12. [sent EXCEPT !.selection = {}].preview = sent.preview
  BY <1>10 DEF Canvases
<1> QED
  BY <1>1, <1>2, <1>3, <1>6, <1>11, <1>12

LEMMA ReleaseLinkKept ==
    ASSUME Sure, NEW t \in Targets, NEW admitted \in BOOLEAN, NEW shift \in BOOLEAN,
           ReleaseLink(t, admitted, shift)
    PROVE  Kept(c', server)
<1> DEFINE r == Found(t, admitted, FALSE, FALSE, shift, shift)
<1>1. c.live.name = "link"
  BY DEF ReleaseLink, Drawing
<1>2. ~c.readOnly /\ c.preview = NoPreview /\ (~c.live.via => c.live.placed = {})
  BY <1>1, DrawingIs
<1>3. ASSUME ChainsOn(r)
      PROVE  t \in Entities /\ ~c.live.via
  <2>1. t # Gone /\ ~c.live.via
    BY <1>3 DEF ChainsOn, Found
  <2> QED
    BY <2>1, EntitiesKnown DEF Targets, Anchors
<1>4. /\ LinkMeans("commit-and-chain", r) => ChainsOn(r)
      /\ LinkMeans("chain-on", r) => ChainsOn(r)
  BY DEF LinkMeans
<1> HIDE DEF r
<1>5. \/ \E keep \in SUBSET c.live.placed, refused \in BOOLEAN : Done(Judged(keep, refused))
      \/ \E refused \in BOOLEAN : Done(Linked(refused))
      \/ /\ LinkMeans("commit-and-chain", r)
         /\ \E refused \in BOOLEAN : Done([Linked(refused) EXCEPT !.live = LinkFrom(t)])
      \/ LinkMeans("chain-on", r) /\ Done([Ended EXCEPT !.live = LinkFrom(t)])
      \/ Done(CleanupRoute(Ended, c.live.placed))
  BY Zenon DEF ReleaseLink, r
<1>6. CASE \E keep \in SUBSET c.live.placed, refused \in BOOLEAN : Done(Judged(keep, refused))
  BY <1>1, <1>6, JudgedLeaves, DoneKept
<1>7. CASE \E refused \in BOOLEAN : Done(Linked(refused))
  BY <1>1, <1>7, LinkedLeaves, DoneKept
<1>8. CASE /\ LinkMeans("commit-and-chain", r)
           /\ \E refused \in BOOLEAN : Done([Linked(refused) EXCEPT !.live = LinkFrom(t)])
  <2>1. PICK refused \in BOOLEAN : Done([Linked(refused) EXCEPT !.live = LinkFrom(t)])
    BY <1>8
  <2>2. t \in Entities
    BY <1>3, <1>4, <1>8
  <2>3. Leaves(Linked(refused)) /\ Linked(refused).preview = NoPreview
    BY <1>1, LinkedLeaves
  <2> QED
    BY <1>2, <2>1, <2>2, <2>3, DoneDrawsOn
<1>9. CASE LinkMeans("chain-on", r) /\ Done([Ended EXCEPT !.live = LinkFrom(t)])
  <2>1. t \in Entities /\ c.live.placed = {}
    BY <1>2, <1>3, <1>4, <1>9
  <2>2. Leaves(Ended) /\ Ended.preview = NoPreview
    BY <1>1, <1>2, <2>1, EndedLeaves, EndedIs
  <2> QED
    BY <1>2, <1>9, <2>1, <2>2, DoneDrawsOn
<1>10. CASE Done(CleanupRoute(Ended, c.live.placed))
  BY <1>1, <1>10, CleanupLeaves, DoneKept
<1> QED
  BY <1>5, <1>6, <1>7, <1>8, <1>9, <1>10

\* A click is on an anchor that is there, and a drag with a stop is no click.
LEMMA ClickLinkKept ==
    ASSUME Sure, NEW hand \in BOOLEAN, NEW pressShift \in BOOLEAN, ClickLink(hand, pressShift)
    PROVE  Kept(c', server)
<1> DEFINE of == c.live.of
           r == Found(Gone, FALSE, TRUE, hand, FALSE, pressShift)
           ops == Restrict(c.model, {of})
           sent == Commit(Ended, ops)
           picked == SymDiff(Ended.selection, {of})
<1>1. c.live.name = "link"
  BY DEF ClickLink, Drawing
<1>2. ~c.readOnly /\ (~c.live.via => c.live.placed = {}) /\ c.selection \subseteq Alive(c.model)
  BY <1>1, DrawingIs
<1>3. ClickHere(r) => of \in Alive(c.model) /\ ~c.live.via
  BY DEF ClickHere, Found
<1>4. /\ LinkMeans("retype", r) => ClickHere(r)
      /\ LinkMeans("toggle", r) => ClickHere(r)
      /\ LinkMeans("select", r) => ClickHere(r)
      /\ LinkMeans("focus", r) => ClickHere(r)
  BY DEF LinkMeans, Retypes, Clicks
<1> HIDE DEF r
<1>5. of \in Alive(c.model) /\ c.live.placed = {}
  <2>1. ClickHere(r)
    BY <1>4, Zenon DEF ClickLink, r
  <2> QED
    BY <1>2, <1>3, <2>1
<1>6. \/ Done([sent EXCEPT !.selection = {of}])
      \/ Done([Ended EXCEPT !.selection = SymDiff(@, {of})])
      \/ Done([Ended EXCEPT !.selection = {of}])
      \/ Done(Ended)
  BY Zenon DEF ClickLink
<1>7. Ended \in Canvases /\ Ended.selection = c.selection /\ Ended.model = c.model
  BY EndedIs
<1>8. [Ended EXCEPT !.selection = SymDiff(@, {of})] = [Ended EXCEPT !.selection = picked]
  BY <1>7 DEF Canvases
<1>9. Leaves(Ended)
  BY <1>1, <1>5, EndedLeaves
<1>10. of \in Entities /\ c.model \in Doc /\ c.model[of] # Gone
  BY <1>5, SureParts DEF Alive
<1>11. ops \in Ops /\ DOMAIN ops = {of} /\ ops[of] = c.model[of]
  BY <1>10, RestrictedDoc, RestrictAt
<1>12. Leaves(sent)
  <2> HIDE DEF ops
  <2> QED
    BY <1>2, <1>7, <1>9, <1>10, <1>11, LeavesCommit
<1>13. sent.model = Over(ops, c.model)
  <2>1. Over(ops, Ended.model) \in Doc
    BY <1>7, <1>10, <1>11, OverDoc
  <2>2. sent.model = Write(Ended, Over(ops, Ended.model)).model
    <3>1. Write(Ended, Over(ops, Ended.model)) \in Canvases
      BY <1>7, <2>1, WriteAround DEF Around
    <3> QED
      BY <3>1 DEF Commit, CommitDrawn, Canvases
  <2>3. Write(Ended, Over(ops, Ended.model)).model = Over(ops, Ended.model)
    BY <1>7, <2>1, WritePrunes
  <2> QED
    BY <1>7, <2>2, <2>3
<1> HIDE DEF ops
<1>14. {of} \subseteq Alive(sent.model)
  <2>1. Over(ops, c.model)[of] = c.model[of]
    BY <1>10, <1>11, OverAt
  <2> QED
    BY <1>10, <1>13, <2>1 DEF Alive
<1>15. picked \subseteq Alive(Ended.model) /\ {of} \subseteq Alive(Ended.model)
  BY <1>2, <1>5, <1>7 DEF SymDiff
<1> HIDE DEF sent, picked, of
<1>16. Leaves([sent EXCEPT !.selection = {of}])
  BY <1>12, <1>14, LeavesSelects
<1>17. Leaves([Ended EXCEPT !.selection = picked]) /\ Leaves([Ended EXCEPT !.selection = {of}])
  BY <1>9, <1>15, LeavesSelects
<1> QED
  BY <1>6, <1>8, <1>9, <1>16, <1>17, DoneKept

-----------------------------------------------------------------------------
(* Keys: what they leave is right                                           *)

\* No gesture has anything in the Model, and a press has no preview.
LEMMA RestingIs ==
    ASSUME Sure, ~Gesturing(c)
    PROVE  /\ Fit(c, server) /\ c.preview = NoPreview /\ c.live.placed = {}
           /\ c.live.name \notin {"link", "handle", "clone"} /\ c \in Canvases /\ Counted(c)
           /\ c.selection \in SUBSET Entities /\ c.selection \subseteq Alive(c.model)
<1>1. c.live.name \notin {"link", "handle", "clone", "move"}
  BY DEF Gesturing, Engaged
<1>2. c.preview = NoPreview /\ c.live.placed = {} /\ c \in Canvases /\ Counted(c)
      /\ c.selection \in SUBSET Entities /\ c.selection \subseteq Alive(c.model)
  BY <1>1, SureParts
<1>3. Fit(c, server)
  BY <1>1, <1>2, KeptBare DEF Sure
<1> QED
  BY <1>1, <1>2, <1>3

LEMMA CommitKept ==
    ASSUME Sure, ~Gesturing(c), NEW ops \in Ops,
           \A e \in DOMAIN ops : ops[e] = Gone \/ c.model[e] # Gone \/ Untouched(c.own, e),
           NEW d, d = Commit(c, ops)
    PROVE  /\ Kept(d, server) /\ d \in Canvases /\ d.live = c.live /\ d.preview = NoPreview
<1>1. /\ Fit(c, server) /\ c.preview = NoPreview /\ c.live.placed = {}
      /\ c.live.name \notin {"link", "handle", "clone"} /\ c \in Canvases /\ Counted(c)
  BY RestingIs
<1>2. Fit(d, server) /\ d.preview = NoPreview
  BY <1>1, SureParts, CommitFit
<1>3. Asked(c, d)
  BY <1>1, CommitAsks DEF Commit
<1>4. d \in Canvases /\ d.live = c.live
  BY <1>3 DEF Asked
<1>5. Kept(d, server)
  BY <1>1, <1>2, <1>4, BareKept
<1> QED
  BY <1>2, <1>4, <1>5

LEMMA PlaceWaypointKept ==
    ASSUME Sure, NEW w \in Waypoints, PlaceWaypoint(w)
    PROVE  Kept(c', server)
<1> DEFINE ops == Each({w}, Min(Places))
           d == Commit(c, ops)
           picked == {w} \cap Alive(d.model)
<1>1. c' = [d EXCEPT !.selection = picked] /\ w \in Unused /\ c.live = Idle
  BY DEF PlaceWaypoint
<1>2. w \in Entities /\ Untouched(c.own, w)
  BY <1>1, UnusedIs
<1>3. ops \in Ops /\ DOMAIN ops = {w}
  BY <1>2, EachOps, LowestPlace DEF Each
<1> HIDE DEF ops
<1>4. ~Gesturing(c)
  BY <1>1, IdleSilent
<1>5. Kept(d, server) /\ d \in Canvases /\ d.live = c.live /\ d.preview = NoPreview
  BY <1>2, <1>3, <1>4, CommitKept
<1>6. picked \subseteq Alive(d.model) /\ picked \in SUBSET Entities
  BY <1>2
<1> HIDE DEF d, picked
<1>7. /\ c' \in Canvases /\ c'.live = d.live /\ c'.model = d.model /\ c'.own = d.own /\ c'.deferred = d.deferred
      /\ c'.selection = picked /\ c'.preview = NoPreview
  BY <1>1, <1>5, <1>6 DEF Canvases
<1>8. PICK a, e : a = d /\ e = c'
  OBVIOUS
<1>9. /\ a \in Canvases /\ Kept(a, server) /\ e \in Canvases /\ e.live = a.live /\ e.model = a.model /\ e.own = a.own
      /\ e.deferred = a.deferred /\ e.selection \subseteq Alive(e.model) /\ e.preview = NoPreview
  BY <1>5, <1>6, <1>7, <1>8
<1>10. Kept(e, server)
  BY <1>9, SameKept
<1> QED
  BY <1>8, <1>10

\* An undo is sent, and shows when it is answered.
LEMMA UndoKept ==
    ASSUME Sure, Undo
    PROVE  Kept(c', server)
<1> DEFINE asked == [undo |-> TRUE, ops |-> Nothing, applied |-> Nothing, left |-> {}]
<1>1. asked \in Request /\ DOMAIN Nothing = {}
  BY NothingOps DEF Request, Nothing
<1>2. c' = [c EXCEPT !.own = Append(@, asked)] /\ ~Gesturing(c)
  BY DEF Undo, KeyEdits
<1>3. asked.undo /\ asked.ops = Nothing /\ asked.applied = Nothing /\ asked.left = {}
  OBVIOUS
<1> HIDE DEF asked
<1>4. /\ Fit(c, server) /\ c.preview = NoPreview /\ c.live.placed = {}
      /\ c.live.name \notin {"link", "handle", "clone"} /\ c \in Canvases /\ Counted(c)
  BY <1>2, RestingIs
<1> DEFINE own == c.own
           msgs == c.deferred
           model == c.model
           more == Append(own, asked)
<1>5. own \in Seq(Request) /\ msgs \in Seq(Message) /\ model \in Doc /\ server \in Doc
  BY SureParts
<1>6. more \in Seq(Request)
  BY <1>1, <1>5, AppendIs
<1>7. /\ c' \in Canvases /\ c'.live = c.live /\ c'.model = model /\ c'.own = more /\ c'.deferred = msgs
      /\ c'.selection = c.selection /\ c'.preview = c.preview
  <2> HIDE DEF more
  <2>1. c' = [c EXCEPT !.own = more]
    BY <1>2, <1>4 DEF Canvases, more
  <2> QED
    BY <1>4, <1>6, <2>1 DEF Canvases
<1>8. Right(own, msgs, model, server) /\ c.selection \subseteq Alive(model)
  BY <1>4 DEF Fit
<1>9. Nth(msgs, Len(msgs)) <= Len(own)
  BY <1>4 DEF Counted, Waiting, Nth
<1> HIDE DEF own, msgs, model
<1>10. Proper(asked)
  BY <1>1, <1>3 DEF Proper
<1>11. /\ \A i \in 1 .. Len(own) : \A e \in DOMAIN asked.applied : Deletes(own[i], e) => asked.applied[e] = Gone
       /\ \A i \in 1 .. Len(own) : asked.left \cap DOMAIN own[i].ops = {}
       /\ \A e \in asked.left : server[e] = Gone
  BY <1>1, <1>3
<1>12. \A e \in Entities \ asked.left : model[e] = Over(asked.applied, model)[e]
  BY <1>1, <1>3, OverAt
<1>13. Right(more, msgs, model, server)
  BY <1>1, <1>5, <1>8, <1>9, <1>10, <1>11, <1>12, CommitRight
<1> HIDE DEF more
<1>14. Fit(c', server)
  BY <1>7, <1>8, <1>13 DEF Fit
<1> QED
  BY <1>4, <1>7, <1>14, BareKept

LEMMA DeleteKept ==
    ASSUME Sure, Delete
    PROVE  Kept(c', server)
<1> DEFINE ops == Each(c.selection, Gone)
<1>1. c' = Commit(c, ops) /\ ~Gesturing(c)
  BY DEF Delete, KeyEdits
<1>2. ops \in Ops /\ \A e \in DOMAIN ops : ops[e] = Gone
  BY SureParts, EachOps DEF Each
<1> HIDE DEF ops
<1> QED
  BY <1>1, <1>2, CommitKept

LEMMA NudgeKept ==
    ASSUME Sure, NEW v \in Places, Nudge(v)
    PROVE  Kept(c', server)
<1> DEFINE ops == Each(c.selection, v)
<1>1. c' = Commit(c, ops) /\ ~Gesturing(c)
  BY DEF Nudge, KeyEdits
<1>2. ops \in Ops /\ DOMAIN ops = c.selection
  BY SureParts, EachOps DEF Each
<1>3. \A e \in c.selection : c.model[e] # Gone
  BY SureParts DEF Alive
<1> HIDE DEF ops
<1> QED
  BY <1>1, <1>2, <1>3, CommitKept

LEMMA SelectionKept ==
    ASSUME Sure, NEW picked, picked \subseteq Alive(c.model), c' = [c EXCEPT !.selection = picked]
    PROVE  Kept(c', server)
<1>1. c \in Canvases /\ Kept(c, server) /\ (c.live.name \notin {"move", "clone"} => c.preview = NoPreview)
      /\ picked \in SUBSET Entities
  BY SureParts DEF Sure, Alive
<1>2. /\ c' \in Canvases /\ c'.live = c.live /\ c'.model = c.model /\ c'.own = c.own /\ c'.deferred = c.deferred
      /\ c'.selection = picked /\ c'.preview = c.preview
  BY <1>1 DEF Canvases
<1>3. PICK e : e = c'
  OBVIOUS
<1>4. /\ e \in Canvases /\ e.live = c.live /\ e.model = c.model /\ e.own = c.own /\ e.deferred = c.deferred
      /\ e.selection \subseteq Alive(e.model) /\ (e.preview = NoPreview \/ e.live.name \in {"move", "clone"})
  BY <1>1, <1>2, <1>3
<1>5. Kept(e, server)
  BY <1>1, <1>4, SameKept
<1> QED
  BY <1>3, <1>5

LEMMA SelectAllKept ==
    ASSUME Sure, SelectAll
    PROVE  Kept(c', server)
<1>1. c' = [c EXCEPT !.selection = Alive(c.model) \ Waypoints]
  BY DEF SelectAll, Looks
<1> QED
  BY <1>1, SelectionKept

LEMMA IdleCancelKept ==
    ASSUME NEW d \in Canvases, Held(d), Counted(d), NEW s \in Doc, Kept(d, s)
    PROVE  Kept(Cancel(d), s)
<1>1. Fit(Cancel(d), s) /\ Cancel(d).preview = NoPreview
  BY CancelFit
<1>2. Cancel(d) \in Canvases /\ Cancel(d).live = Idle
  BY CancelRests DEF Rests
<1> QED
  BY <1>1, <1>2, IdlePlaces, BareKept

LEMMA EscapeKept ==
    ASSUME Sure, Escape
    PROVE  Kept(c', server)
<1>1. c' = Cancel(c) \/ c' = [c EXCEPT !.selection = {}]
  BY DEF Escape, Looks
<1>2. Kept(Cancel(c), server)
  BY SureParts, IdleCancelKept DEF Sure
<1> QED
  BY <1>1, <1>2, SelectionKept

LEMMA PointerLostKept ==
    ASSUME Sure, PointerLost
    PROVE  Kept(c', server)
<1>1. c' = Cancel(c)
  BY DEF PointerLost, Looks
<1>2. Kept(Cancel(c), server)
  BY SureParts, IdleCancelKept DEF Sure
<1> QED
  BY <1>1, <1>2

\* A lock cancels what is in hand; lifting it changes nothing that is shown.
LEMMA LockSame ==
    ASSUME Sure, NEW b \in BOOLEAN, NEW d, d = [c EXCEPT !.readOnly = b]
    PROVE  d \in Canvases /\ Held(d) /\ Counted(d) /\ Kept(d, server)
<1>1. c \in Canvases /\ Kept(c, server) /\ (c.live.name \notin {"move", "clone"} => c.preview = NoPreview)
      /\ Held(c) /\ Counted(c) /\ c.selection \subseteq Alive(c.model)
  BY SureParts DEF Sure
<1>2. /\ d \in Canvases /\ d.live = c.live /\ d.model = c.model /\ d.own = c.own /\ d.deferred = c.deferred
      /\ d.selection = c.selection /\ d.preview = c.preview
  BY <1>1 DEF Canvases
<1>3. Kept(d, server)
  BY <1>1, <1>2, SameKept
<1> QED
  BY <1>1, <1>2, <1>3 DEF Held, Counted, Waiting, Gesturing

LEMMA LockKept ==
    ASSUME Sure, Lock
    PROVE  Kept(c', server)
<1> DEFINE d == [c EXCEPT !.readOnly = TRUE]
<1>1. c' = Cancel(d)
  BY DEF Lock, Looks
<1>2. d \in Canvases /\ Held(d) /\ Counted(d) /\ Kept(d, server)
  BY LockSame
<1> HIDE DEF d
<1>3. Kept(Cancel(d), server)
  BY <1>2, SureParts, IdleCancelKept
<1> QED
  BY <1>1, <1>3

LEMMA UnlockKept ==
    ASSUME Sure, Unlock
    PROVE  Kept(c', server)
<1> DEFINE d == [c EXCEPT !.readOnly = FALSE]
<1>1. c' = d
  BY DEF Unlock, Looks
<1>2. Kept(d, server)
  BY LockSame
<1> QED
  BY <1>1, <1>2

-----------------------------------------------------------------------------
(* The server: what it sends leaves right                                   *)

\* A message that a gesture keeps waiting.
LEMMA WaitsKept ==
    ASSUME NEW d \in Canvases, NEW s \in Doc, Kept(d, s), NEW m \in Message, NEW next \in Doc,
           Told(d.own, m, Nth(d.deferred, Len(d.deferred)) + 1, s, next),
           \A j \in Nth(d.deferred, Len(d.deferred)) + (IF m.cmd = "ack" THEN 1 ELSE 0) + 1 .. Len(d.own) :
              \A x \in d.own[j].left : next[x] = Gone,
           \A x \in d.live.placed : next[x] = Gone,
           NEW e, e = [d EXCEPT !.deferred = Append(@, m)]
    PROVE  Kept(e, next)
<1> DEFINE own == d.own
           msgs == d.deferred
           more == Append(msgs, m)
           model == Rewound(d).model
<1>1. own \in Seq(Request) /\ msgs \in Seq(Message) /\ d.live \in Live
  BY CanvasParts
<1>2. more \in Seq(Message)
  BY <1>1, AppendIs
<1>3. /\ e \in Canvases /\ e.deferred = more /\ e.own = own /\ e.model = d.model /\ e.live = d.live
      /\ e.selection = d.selection /\ e.preview = d.preview
  <2> HIDE DEF more
  <2>1. e = [d EXCEPT !.deferred = more]
    BY DEF more
  <2> QED
    BY <1>2, <2>1 DEF Canvases
<1>4. Rewound(e).model = model
  BY <1>1, <1>3, UndoneSame DEF Rewound
<1>5. Right(own, msgs, model, s) /\ Hand(d, s) /\ d.selection \subseteq Alive(d.model)
  BY DEF Kept
<1>6. /\ Told(own, m, Nth(msgs, Len(msgs)) + 1, s, next)
      /\ \A j \in Nth(msgs, Len(msgs)) + (IF m.cmd = "ack" THEN 1 ELSE 0) + 1 .. Len(own) :
            \A x \in own[j].left : next[x] = Gone
  OBVIOUS
<1> HIDE DEF own, msgs, model
<1>7. Right(own, more, model, next)
  BY <1>1, <1>5, <1>6, RightWaits
<1> HIDE DEF more
<1>8. Hand(e, next)
  BY <1>3, <1>5 DEF Hand, own
<1> QED
  BY <1>3, <1>4, <1>5, <1>7, <1>8 DEF Kept

\* A change or a snapshot, with no gesture to keep it waiting.
LEMMA ChangeKept ==
    ASSUME NEW d \in Canvases, NEW s \in Doc, Fit(d, s), d.deferred = << >>, d.preview = NoPreview,
           d.live.placed = {}, d.live.name \notin {"handle", "clone"},
           NEW m \in Message, m.cmd = "change", NEW next \in Doc, next = Atop(m.ops, s),
           \A j \in 1 .. Len(d.own) : \A x \in d.own[j].left : next[x] = Gone
    PROVE  Kept(ApplyChange(d, m), next)
<1> DEFINE e == ApplyChange(d, m)
           own == d.own
           ops == m.ops
           model == d.model
           new == e.model
<1>1. /\ e.own = own /\ e.preview = d.preview /\ Took(own, ops, model, new) /\ e.selection \subseteq Alive(e.model)
  BY ChangeTakes
<1>2. e \in Canvases /\ e.deferred = d.deferred /\ e.live = d.live
  BY ChangeAround DEF Around
<1>3. Right(own, << >>, model, s) /\ own \in Seq(Request)
  BY CanvasParts DEF Fit
<1>4. \A j \in 1 .. Len(own) : \A x \in own[j].left : next[x] = Gone
  OBVIOUS
<1> HIDE DEF own, ops, model, new
<1>5. Clean(own) /\ DeletesShown(own, model) /\ Shows(own, model, s)
  BY <1>3, RightEmpty
<1>6. DeletesShown(own, new)
  BY <1>1, <1>3, <1>5, TookDeletes
<1>7. Shows(own, new, Atop(ops, s))
  BY <1>1, <1>3, <1>5, TookShows
<1>8. Right(own, << >>, new, next)
  BY <1>3, <1>4, <1>5, <1>6, <1>7, RightEmpty DEF ops
<1> HIDE DEF e
<1>9. Fit(e, next)
  BY <1>1, <1>2, <1>8 DEF Fit, new
<1>10. e.live.placed = {} /\ e.live.name \notin {"handle", "clone"} /\ e.preview = NoPreview
  BY <1>1, <1>2
<1>11. Kept(e, next)
  BY <1>2, <1>9, <1>10, BareKept
<1> QED
  BY <1>11 DEF e

LEMMA LoadKept ==
    ASSUME NEW d \in Canvases, d.deferred = << >>, d.preview = NoPreview, Clean(d.own),
           NEW m \in Message, m.cmd = "snapshot", NEW next \in Doc, next = m.doc,
           \A j \in 1 .. Len(d.own) : \A x \in d.own[j].left : next[x] = Gone
    PROVE  Kept(Load(d, m), next)
<1> DEFINE e == Load(d, m)
           own == d.own
           new == Reapplied(own, next)
<1>1. /\ e.own = own /\ e.preview = d.preview /\ e.model = new /\ e.selection \subseteq Alive(e.model)
  BY LoadTakes
<1>2. e \in Canvases /\ e.deferred = d.deferred /\ e.live = Idle
  BY LoadAround DEF Around
<1>3. own \in Seq(Request)
  BY CanvasParts
<1>4. Shows(own, new, next) /\ DeletesShown(own, new)
  BY <1>3, OverShows
<1>5. Clean(own) /\ \A j \in 1 .. Len(own) : \A x \in own[j].left : next[x] = Gone
  OBVIOUS
<1> HIDE DEF own, new
<1>6. Right(own, << >>, new, next)
  BY <1>3, <1>4, <1>5, RightEmpty
<1> HIDE DEF e
<1>7. Fit(e, next)
  BY <1>1, <1>2, <1>6 DEF Fit
<1>8. Kept(e, next)
  BY <1>1, <1>2, <1>7, IdlePlaces, BareKept
<1> QED
  BY <1>8 DEF e

\* An answer that touches nothing of the gesture lands under it as it would without it.
LEMMA RewoundTook ==
    ASSUME NEW d \in Canvases, NEW e \in Canvases, e.live = d.live, NEW own, NEW ops,
           Took(own, ops, d.model, e.model),
           d.live.placed \cap DOMAIN ops = {},
           d.live.name = "handle" => d.model[d.live.of] # Gone /\ d.live.of \notin DOMAIN ops
    PROVE  Took(own, ops, Rewound(d).model, Rewound(e).model)
<1> DEFINE g == d.live
           P == PendingOps(own)
           u == Rewound(d).model
           v == Rewound(e).model
           a == d.model
           b == e.model
<1>1. g \in Live /\ g.of \in Entities /\ a \in Doc /\ b \in Doc /\ u \in Doc /\ v \in Doc
  BY CanvasParts, RewoundModel DEF Live
<1>2. \A x \in Entities : b[x] = IF x \in DOMAIN ops THEN Over(P, Atop(ops, a))[x] ELSE a[x]
  BY DEF Took
<1>3. SUFFICES ASSUME NEW x \in Entities
               PROVE  v[x] = IF x \in DOMAIN ops THEN Over(P, Atop(ops, u))[x] ELSE u[x]
  BY <1>1 DEF Took
<1>4. x \in DOMAIN ops => Atop(ops, a)[x] = ops[x] /\ Atop(ops, u)[x] = ops[x]
  BY AtopAt
<1>5. x \in DOMAIN ops => Over(P, Atop(ops, a))[x] = Over(P, Atop(ops, u))[x]
  <2> DEFINE A == Atop(ops, a)
             B == Atop(ops, u)
  <2>1. /\ Over(P, A)[x] = IF x \in DOMAIN P /\ (A[x] # Gone \/ x \in Fresh) THEN P[x] ELSE A[x]
        /\ Over(P, B)[x] = IF x \in DOMAIN P /\ (B[x] # Gone \/ x \in Fresh) THEN P[x] ELSE B[x]
    BY OverAt
  <2> HIDE DEF A, B, P
  <2>2. x \in DOMAIN ops => A[x] = B[x]
    BY <1>4 DEF A, B
  <2>3. x \in DOMAIN ops => Over(P, A)[x] = Over(P, B)[x]
    BY <2>1, <2>2
  <2> QED
    BY <2>3 DEF A, B
<1>6. CASE g.name = "link"
  <2>1. u[x] = (IF x \in g.placed THEN Gone ELSE a[x]) /\ v[x] = (IF x \in g.placed THEN Gone ELSE b[x])
    <3>1. e.live.name = "link" /\ e.live.placed = g.placed
      BY <1>6
    <3>2. u = [y \in Entities |-> IF y \in g.placed THEN Gone ELSE a[y]]
      BY <1>6, RewoundModel
    <3>3. v = [y \in Entities |-> IF y \in e.live.placed THEN Gone ELSE b[y]]
      BY <3>1, RewoundModel
    <3> HIDE DEF u, v
    <3> QED
      BY <3>1, <3>2, <3>3
  <2> QED
    BY <1>2, <1>5, <2>1
<1>7. CASE g.name = "handle"
  <2>1. a[g.of] # Gone /\ b[g.of] # Gone /\ g.of \notin DOMAIN ops
    BY <1>1, <1>2, <1>7
  <2>2. u = [a EXCEPT ![g.of] = g.before[g.of]] /\ v = [b EXCEPT ![g.of] = g.before[g.of]]
    BY <1>7, <2>1, RewoundModel
  <2>3. u[x] = (IF x = g.of THEN g.before[g.of] ELSE a[x]) /\ v[x] = (IF x = g.of THEN g.before[g.of] ELSE b[x])
    BY <1>1, <2>2 DEF Doc
  <2> QED
    BY <1>2, <1>5, <2>1, <2>3
<1>8. CASE g.name \notin {"link", "handle"}
  <2>1. u = a /\ v = b
    BY <1>8, RewoundModel
  <2> QED
    BY <1>2, <2>1
<1> QED
  BY <1>6, <1>7, <1>8

-----------------------------------------------------------------------------
\* An answer that does not wait: it lands under the gesture in hand, unless it moves
\* what the hand is resizing.
LEMMA AckKept ==
    ASSUME NEW d \in Canvases, NEW s \in Doc, Kept(d, s), d.deferred = << >>, d.own # << >>,
           NEW m \in Message, m.cmd = "ack", NEW next \in Doc, next = Atop(m.ops, s),
           d.own[1].left \subseteq DOMAIN m.ops,
           d.own[1].applied = Nothing \/ next = Over(d.own[1].applied, s),
           \A j \in 2 .. Len(d.own) : \A x \in d.own[j].left : next[x] = Gone,
           \A x \in d.live.placed : next[x] = Gone /\ x \notin DOMAIN m.ops,
           ~ApplyAck(d, m).overtaken
    PROVE  Kept(ApplyAck(d, m), next)
<1> DEFINE e == ApplyAck(d, m)
           own == d.own
           rest == Tail(own)
           D == Derived(own, m.ops)
           ops == Restrict(m.ops, D)
           u == Rewound(d).model
           v == Rewound(e).model
<1>1. /\ e.own = rest /\ e.preview = d.preview /\ Took(rest, ops, d.model, e.model)
      /\ e.selection \subseteq Alive(e.model)
      /\ e.overtaken = (d.overtaken \/ (d.live.name = "handle" /\ d.live.of \in DOMAIN ops))
  BY AckTakes
<1>2. e \in Canvases /\ e.deferred = d.deferred /\ e.live = d.live
  BY AckAnswers DEF Answer
<1>3. own \in Seq(Request) /\ d.live.placed \subseteq Entities /\ d.live.of \in Entities /\ d.live.moved \subseteq Entities
  BY CanvasParts, EntitiesKnown DEF Live
<1>4. Part(rest, own) /\ rest \in Seq(Request)
  BY <1>3, TailPart, TailIs
<1>5. Right(own, << >>, u, s) /\ Hand(d, s) /\ d.selection \subseteq Alive(d.model)
  BY DEF Kept
<1>6. DOMAIN ops = D /\ D \subseteq DOMAIN m.ops
  BY RestrictAt DEF Derived
<1>7. d.live.placed \cap DOMAIN ops = {}
  BY <1>6
<1>8. d.live.name = "handle" => d.model[d.live.of] # Gone /\ d.live.of \notin DOMAIN ops
  BY <1>1, <1>5 DEF Hand
<1> HIDE DEF ops, e
<1>9. Took(rest, ops, u, v)
  BY <1>1, <1>2, <1>7, <1>8, RewoundTook
<1>10. Clean(own) /\ DeletesShown(own, u) /\ Shows(own, u, s)
  BY <1>3, <1>5, RightEmpty
<1>11. /\ Clean(rest) /\ DeletesShown(rest, u) /\ \A x : Untouched(own, x) => Untouched(rest, x)
  BY <1>3, <1>4, <1>10, PartKeeps
<1>12. DeletesShown(rest, v)
  BY <1>4, <1>9, <1>11, TookDeletes
<1>13. Shows(rest, v, next)
  <2>1. m.ops \in Ops
    BY MessageParts
  <2>2. /\ own[1].left \subseteq DOMAIN m.ops /\ (own[1].applied = Nothing \/ next = Over(own[1].applied, s))
        /\ own # << >>
    OBVIOUS
  <2>3. Took(Tail(own), Restrict(m.ops, Derived(own, m.ops)), u, v)
    BY <1>9 DEF ops
  <2> HIDE DEF own, u, v
  <2> QED
    BY <1>3, <1>10, <2>1, <2>2, <2>3, AckShows DEF rest
<1>14. \A j \in 1 .. Len(rest) : \A x \in rest[j].left : next[x] = Gone
  <2>1. /\ Len(own) = Len(rest) + 1 /\ Len(rest) \in Nat
        /\ \A i \in 1 .. Len(rest) : i + 1 \in 1 .. Len(own) /\ rest[i] = own[i + 1]
    BY <1>3, TailIs
  <2>2. \A j \in 2 .. Len(own) : \A x \in own[j].left : next[x] = Gone
    OBVIOUS
  <2> HIDE DEF own, rest
  <2> QED
    BY <2>1, <2>2
<1> HIDE DEF own, rest, u, v
<1>15. Right(rest, << >>, v, next)
  BY <1>4, <1>11, <1>12, <1>13, <1>14, RightEmpty
<1>16. Hand(e, next)
  <2>1. \A x \in Entities : x \notin DOMAIN ops => e.model[x] = d.model[x]
    BY <1>1 DEF Took
  <2>2. \A x \in d.live.placed : e.model[x] # Gone /\ next[x] = Gone /\ Untouched(rest, x)
    BY <1>3, <1>5, <1>7, <1>11, <2>1 DEF Hand, own
  <2>3. d.live.name = "handle" => e.model[d.live.of] # Gone
    BY <1>3, <1>8, <2>1
  <2> QED
    BY <1>1, <1>2, <1>5, <1>11, <2>2, <2>3 DEF Hand, own
<1>17. Kept(e, next)
  BY <1>1, <1>2, <1>15, <1>16 DEF Kept, v
<1> QED
  BY <1>17 DEF e

LEMMA SnapshotTold ==
    ASSUME NEW own, NEW m, m.cmd = "snapshot", NEW j, NEW s, m.doc = s
    PROVE  Told(own, m, j, s, s)
  BY DEF Told

LEMMA FreshLeft ==
    ASSUME NEW own \in Seq(Request), Clean(own), NEW j \in 1 .. Len(own), NEW x \in own[j].left
    PROVE  x \in Fresh /\ x \in Entities /\ own[j].ops[x] # Gone /\ own[j].left = DOMAIN own[j].ops
           /\ own[j].applied = Nothing /\ ~own[j].undo
<1>1. Proper(own[j])
  BY DEF Clean
<1>2. own[j].left # {}
  OBVIOUS
<1>3. /\ own[j].applied = Nothing /\ own[j].left = DOMAIN own[j].ops
      /\ \A e \in own[j].left : e \in Fresh /\ own[j].ops[e] # Gone
  BY <1>1, <1>2 DEF Proper
<1>4. ~own[j].undo
  <2>1. DOMAIN Nothing = {}
    BY DEF Nothing
  <2>2. own[j].undo => own[j].ops = Nothing
    BY <1>1 DEF Proper
  <2> QED
    BY <1>2, <1>3, <2>1, <2>2
<1> QED
  BY <1>3, <1>4, EntitiesKnown

LEMMA LeftGone ==
    ASSUME Sure
    PROVE  /\ Clean(c.own)
           /\ \A j \in Nth(c.deferred, Len(c.deferred)) + 1 .. Len(c.own) : \A x \in c.own[j].left : server[x] = Gone
           /\ Nth(c.deferred, Len(c.deferred)) \in Nat /\ Len(c.own) \in Nat
<1>1. Right(c.own, c.deferred, Rewound(c).model, server) /\ c.deferred \in Seq(Message) /\ c.own \in Seq(Request)
  BY SureParts
<1>2. Nth(c.deferred, Len(c.deferred)) \in Nat
  BY <1>1, AnswersCounted DEF Nth
<1>3. Len(c.own) \in Nat
  BY <1>1
<1> QED
  BY <1>1, <1>2, <1>3 DEF Right

\* Another's change of what was stored already.
LEMMA PeerEditsKept ==
    ASSUME Sure, NEW e \in Entities, NEW v \in Places \cup {Gone}, PeerEdits(e, v)
    PROVE  Kept(c', server')
<1> DEFINE m == [cmd |-> "change", ops |-> Each({e}, v)]
           next == [server EXCEPT ![e] = v]
<1>1. Each({e}, v) \in Ops
  BY EachOps
<1>2. m \in Message /\ m.cmd = "change" /\ m.ops = Each({e}, v)
  BY <1>1 DEF Message
<1>3. c' = Hear(c, m) /\ server' = next /\ e \in {Device, Zone}
  BY DEF PeerEdits, Hears
<1>4. server \in Doc
  BY SureParts
<1>5. next \in Doc /\ next = Atop(m.ops, server) /\ \A x \in Fresh : next[x] = server[x]
  <2>1. e \notin Fresh /\ Fresh \subseteq Entities
    BY <1>3, CanvasAssumption, EntitiesKnown
  <2>2. next \in Doc /\ \A x \in Entities : next[x] = IF x = e THEN v ELSE server[x]
    BY <1>4 DEF Doc
  <2> DEFINE ops == Each({e}, v)
             told == Atop(ops, server)
  <2>3. ops \in Ops /\ DOMAIN ops = {e} /\ ops[e] = v
    BY <1>1 DEF Each
  <2> HIDE DEF ops
  <2>4. told \in Doc
    BY <1>4, <2>3, JoinedDoc
  <2>5. \A x \in Entities : told[x] = next[x]
    <3> SUFFICES ASSUME NEW x \in Entities PROVE told[x] = next[x]
      OBVIOUS
    <3>1. x \in DOMAIN server
      BY <1>4 DEF Doc
    <3>2. told[x] = IF x \in DOMAIN ops THEN ops[x] ELSE server[x]
      BY <3>1, AtopAt
    <3> HIDE DEF told, next
    <3> QED
      BY <2>2, <2>3, <3>2
  <2> HIDE DEF told, next
  <2>6. told = next
    BY <2>2, <2>4, <2>5 DEF Doc
  <2> QED
    BY <1>2, <2>1, <2>2, <2>6 DEF told, ops
<1> HIDE DEF m, next
<1> DEFINE n == Nth(c.deferred, Len(c.deferred))
<1>6. /\ Clean(c.own) /\ n \in Nat /\ Len(c.own) \in Nat
      /\ \A j \in n + 1 .. Len(c.own) : \A x \in c.own[j].left : server[x] = Gone
  BY LeftGone
<1>7. c.own \in Seq(Request) /\ Kept(c, server) /\ c \in Canvases /\ Held(c) /\ Hand(c, server)
      /\ c.live.placed \in SUBSET Waypoints
  BY SureParts DEF Sure
<1> HIDE DEF n
<1>8. \A j \in n + 1 .. Len(c.own) : \A x \in c.own[j].left : next[x] = Gone
  <2> SUFFICES ASSUME NEW j \in n + 1 .. Len(c.own), NEW x \in c.own[j].left
               PROVE  next[x] = Gone
    OBVIOUS
  <2>1. j \in 1 .. Len(c.own)
    BY <1>6
  <2>2. x \in Fresh
    BY <1>6, <1>7, <2>1, FreshLeft
  <2> QED
    BY <1>5, <1>6, <2>2
<1>9. \A x \in c.live.placed : next[x] = Gone
  BY <1>5, <1>7 DEF Hand, Fresh
<1>10. CASE Gesturing(c)
  <2>1. c' = [c EXCEPT !.deferred = Append(@, m)]
    BY <1>2, <1>3, <1>10 DEF Hear
  <2>2. Told(c.own, m, n + 1, server, next)
    BY <1>2, <1>5 DEF Told
  <2>3. \A j \in n + (IF m.cmd = "ack" THEN 1 ELSE 0) + 1 .. Len(c.own) : \A x \in c.own[j].left : next[x] = Gone
    BY <1>2, <1>6, <1>8
  <2>4. PICK d : d = c'
    OBVIOUS
  <2>5. d = [c EXCEPT !.deferred = Append(@, m)]
    BY <2>1, <2>4
  <2>6. Kept(d, next)
    BY <1>2, <1>4, <1>5, <1>7, <1>9, <2>2, <2>3, <2>5, WaitsKept DEF n
  <2> QED
    BY <1>3, <2>4, <2>6
<1>11. CASE ~Gesturing(c)
  <2>1. c' = ApplyChange(c, m) /\ c.deferred = << >>
    BY <1>2, <1>3, <1>7, <1>11 DEF Hear, Held
  <2>2. /\ Fit(c, server) /\ c.preview = NoPreview /\ c.live.placed = {} /\ c.live.name \notin {"link", "handle", "clone"}
    BY <1>11, RestingIs
  <2>3. n = 0
    BY <2>1, NoneWaits DEF n
  <2>4. \A j \in 1 .. Len(c.own) : \A x \in c.own[j].left : next[x] = Gone
    BY <1>8, <2>3
  <2>5. Kept(ApplyChange(c, m), next)
    BY <1>2, <1>4, <1>5, <1>7, <2>1, <2>2, <2>4, ChangeKept
  <2> QED
    BY <1>3, <2>1, <2>5
<1> QED
  BY <1>10, <1>11

LEMMA SnapshotComesKept ==
    ASSUME Sure, SnapshotComes
    PROVE  Kept(c', server')
<1> DEFINE m == [cmd |-> "snapshot", doc |-> server]
           n == Nth(c.deferred, Len(c.deferred))
<1>1. c.own \in Seq(Request) /\ Kept(c, server) /\ c \in Canvases /\ Held(c) /\ Hand(c, server) /\ server \in Doc
  BY SureParts DEF Sure
<1>2. m \in Message /\ m.cmd = "snapshot" /\ m.doc = server
  BY <1>1 DEF Message
<1>3. c' = Hear(c, m) /\ server' = server
  BY DEF SnapshotComes, Hears
<1> HIDE DEF m
<1>4. /\ Clean(c.own) /\ n \in Nat /\ Len(c.own) \in Nat
      /\ \A j \in n + 1 .. Len(c.own) : \A x \in c.own[j].left : server[x] = Gone
  BY LeftGone
<1> HIDE DEF n
<1>5. CASE Gesturing(c)
  <2>1. c' = [c EXCEPT !.deferred = Append(@, m)]
    BY <1>2, <1>3, <1>5 DEF Hear
  <2>2. Told(c.own, m, n + 1, server, server)
    BY <1>2, SnapshotTold
  <2>3. \A j \in n + (IF m.cmd = "ack" THEN 1 ELSE 0) + 1 .. Len(c.own) : \A x \in c.own[j].left : server[x] = Gone
    BY <1>2, <1>4
  <2>4. \A x \in c.live.placed : server[x] = Gone
    BY <1>1 DEF Hand
  <2>5. PICK d : d = c'
    OBVIOUS
  <2>6. d = [c EXCEPT !.deferred = Append(@, m)]
    BY <2>1, <2>5
  <2>7. Kept(d, server)
    BY <1>1, <1>2, <2>2, <2>3, <2>4, <2>6, WaitsKept DEF n
  <2> QED
    BY <1>3, <2>5, <2>7
<1>6. CASE ~Gesturing(c)
  <2>1. c' = Load(c, m) /\ c.deferred = << >>
    BY <1>1, <1>2, <1>3, <1>6 DEF Hear, Held
  <2>2. c.preview = NoPreview
    BY <1>6, RestingIs
  <2>3. n = 0
    BY <2>1, NoneWaits DEF n
  <2>4. \A j \in 1 .. Len(c.own) : \A x \in c.own[j].left : server[x] = Gone
    BY <1>4, <2>3
  <2>5. Kept(Load(c, m), server)
    BY <1>1, <1>2, <1>4, <2>1, <2>2, <2>4, LoadKept
  <2> QED
    BY <1>3, <2>1, <2>5
<1> QED
  BY <1>5, <1>6

-----------------------------------------------------------------------------
\* What an answer says of the request it answers, and what it leaves alone.
LEMMA AcceptedIs ==
    ASSUME NEW own \in Seq(Request), Clean(own), NEW k \in 1 .. Len(own), NEW s \in Doc, NEW next \in Doc,
           NEW undone \in Ops, DOMAIN undone \subseteq {Device, Zone},
           next = IF own[k].undo THEN Atop(undone, s) ELSE Over(own[k].ops, s),
           \A j \in k .. Len(own) : \A x \in own[j].left : s[x] = Gone,
           NEW ops, ops = Restrict(next, {e \in Entities : next[e] # s[e]})
    PROVE  /\ next = Atop(ops, s) /\ own[k].left \subseteq DOMAIN ops
           /\ own[k].applied = Nothing \/ next = Over(own[k].applied, s)
           /\ \A j \in k + 1 .. Len(own) : \A x \in own[j].left : next[x] = Gone
           /\ \A x \in Waypoints : Untouched(own, x) => next[x] = s[x] /\ x \notin DOMAIN ops
<1> DEFINE changed == {e \in Entities : next[e] # s[e]}
           r == own[k]
<1>0. r \in Request /\ r.ops \in Ops /\ r.undo \in BOOLEAN /\ Proper(r) /\ k \in Nat /\ Len(own) \in Nat
  <2>1. r \in Request /\ r.ops \in Ops /\ k \in Nat /\ Len(own) \in Nat
    BY RequestParts
  <2> QED
    BY <2>1 DEF Request, Clean
<1>1. DOMAIN ops = changed /\ \A x \in changed : ops[x] = next[x]
  BY RestrictAt
<1>2. \A x \in Entities : ops \in Ops /\ (x \in DOMAIN ops => ops[x] = next[x]) /\ (x \notin DOMAIN ops => next[x] = s[x])
  <2>1. ops \in Ops
    BY RestrictedDoc
  <2> QED
    BY <1>1, <2>1
<1>3. next = Atop(ops, s)
  <2> DEFINE told == Atop(ops, s)
  <2>1. told \in Doc
    BY RestrictedDoc, JoinedDoc
  <2>2. \A x \in Entities : told[x] = next[x]
    <3> SUFFICES ASSUME NEW x \in Entities PROVE told[x] = next[x]
      OBVIOUS
    <3>1. x \in DOMAIN s
      BY DEF Doc
    <3>2. told[x] = IF x \in DOMAIN ops THEN ops[x] ELSE s[x]
      BY <3>1, AtopAt
    <3> HIDE DEF told
    <3> QED
      BY <1>2, <3>2
  <2> HIDE DEF told
  <2>3. told = next
    BY <2>1, <2>2 DEF Doc
  <2> QED
    BY <2>3 DEF told
\* What the request does not name, and no undo may touch, is as it was.
<1>4. ASSUME NEW x \in Fresh, x \notin DOMAIN r.ops
      PROVE  next[x] = s[x]
  <2>1. x \in Entities /\ x \notin DOMAIN undone /\ x \in DOMAIN s
    BY EntitiesKnown, CanvasAssumption DEF Doc
  <2>2. CASE r.undo
    <3>1. next = Atop(undone, s)
      BY <2>2
    <3>2. Atop(undone, s)[x] = IF x \in DOMAIN undone THEN undone[x] ELSE s[x]
      BY <2>1, AtopAt
    <3> QED
      BY <2>1, <3>1, <3>2
  <2>3. CASE ~r.undo
    <3>1. next = Over(r.ops, s)
      BY <2>3
    <3>2. Over(r.ops, s)[x] = s[x]
      BY <1>4, <2>1, OverAt
    <3> QED
      BY <3>1, <3>2
  <2> QED
    BY <1>0, <2>2, <2>3
<1>5. own[k].left \subseteq DOMAIN ops
  <2> SUFFICES ASSUME NEW x \in own[k].left PROVE x \in DOMAIN ops
    OBVIOUS
  <2>1. x \in Fresh /\ x \in Entities /\ r.ops[x] # Gone /\ x \in DOMAIN r.ops /\ ~r.undo
    BY FreshLeft
  <2>2. s[x] = Gone
    BY <1>0
  <2>3. Over(r.ops, s)[x] = r.ops[x]
    BY <2>1, OverAt
  <2>4. next = Over(r.ops, s)
    BY <2>1
  <2> QED
    BY <1>1, <2>1, <2>2, <2>3, <2>4
<1>6. own[k].applied = Nothing \/ next = Over(own[k].applied, s)
  <2>1. CASE r.applied = Nothing
    BY <2>1
  <2>2. CASE r.applied # Nothing
    <3>1. r.applied = r.ops /\ ~r.undo
      BY <1>0, <2>2 DEF Proper
    <3> QED
      BY <3>1
  <2> QED
    BY <2>1, <2>2
<1>7. ASSUME NEW j \in k + 1 .. Len(own), NEW x \in own[j].left
      PROVE  next[x] = Gone
  <2>1. j \in 1 .. Len(own) /\ k < j /\ j \in k .. Len(own)
    BY <1>0
  <2>2. x \in Fresh
    BY <2>1, FreshLeft
  <2>3. own[j].left \cap DOMAIN own[k].ops = {}
    BY <2>1 DEF Clean
  <2>4. x \notin DOMAIN r.ops
    BY <2>3
  <2>5. s[x] = Gone
    BY <2>1
  <2> QED
    BY <1>4, <2>2, <2>4, <2>5
<1>8. ASSUME NEW x \in Waypoints, Untouched(own, x)
      PROVE  next[x] = s[x] /\ x \notin DOMAIN ops
  <2>1. x \in Fresh /\ x \notin DOMAIN r.ops
    BY <1>8 DEF Fresh, Untouched
  <2>2. next[x] = s[x]
    BY <1>4, <2>1
  <2> QED
    BY <1>1, <2>2
<1> QED
  BY <1>3, <1>5, <1>6, <1>7, <1>8

LEMMA AcceptKept ==
    ASSUME Sure, Accept
    PROVE  c'.overtaken \/ Kept(c', server')
<1> DEFINE own == c.own
           msgs == c.deferred
           n == Nth(msgs, Len(msgs))
           k == n + 1
           options == IF NextOwn.undo THEN {Each({e}, v) : e \in {Device, Zone}, v \in Places \cup {Gone}}
                      ELSE {Nothing}
           changed == Restrict(server', {e \in Entities : server'[e] # server[e]})
           msg == [cmd |-> "ack", ops |-> changed]
<1>1. /\ own \in Seq(Request) /\ Kept(c, server) /\ c \in Canvases /\ Held(c) /\ Hand(c, server) /\ server \in Doc
      /\ c.live.placed \in SUBSET Waypoints /\ Good(c) /\ msgs \in Seq(Message)
  BY SureParts DEF Sure
<1>2. Answered = n /\ Answered < Len(own) /\ k \in 1 .. Len(own) /\ NextOwn = own[k]
  <2>1. Unanswered
    BY DEF Accept
  <2>2. Answered = Waiting(c) /\ Answered + 1 \in 1 .. Len(own)
    BY <1>1, <2>1, AnsweredWaits, NextOwnKnown
  <2> QED
    BY <2>1, <2>2 DEF Waiting, Nth, NextOwn, Unanswered
<1>3. PICK undone \in options :
         /\ server' = IF NextOwn.undo THEN Atop(undone, server) ELSE Over(NextOwn.ops, server)
         /\ Hears(c, msg)
  BY DEF Accept
<1>4. undone \in Ops /\ DOMAIN undone \subseteq {Device, Zone}
  <2>1. DOMAIN Nothing = {}
    BY DEF Nothing
  <2>2. CASE NextOwn.undo
    <3>1. PICK e \in {Device, Zone}, v \in Places \cup {Gone} : undone = Each({e}, v)
      BY <1>3, <2>2
    <3>2. {e} \in SUBSET Entities
      BY EntitiesKnown
    <3>3. Each({e}, v) \in Ops
      BY <3>2, EachOps
    <3>4. DOMAIN Each({e}, v) = {e}
      BY DEF Each
    <3> QED
      BY <3>1, <3>3, <3>4
  <2>3. CASE ~NextOwn.undo
    <3>1. undone = Nothing
      BY <2>3
    <3> QED
      BY <2>1, <3>1, NothingOps
  <2> QED
    BY <2>2, <2>3
<1>5. server' \in Doc
  BY <1>1, AcceptMoves DEF Sure
<1> HIDE DEF options
<1>6. PICK next, ops, m : next = server' /\ ops = changed /\ m = msg
  OBVIOUS
<1>7. /\ next \in Doc /\ ops = Restrict(next, {e \in Entities : next[e] # server[e]})
      /\ next = IF own[k].undo THEN Atop(undone, server) ELSE Over(own[k].ops, server)
  BY <1>2, <1>3, <1>5, <1>6
<1>8. m = [cmd |-> "ack", ops |-> ops] /\ c' = Hear(c, m)
  BY <1>3, <1>6 DEF Hears
<1> HIDE DEF changed, msg
<1>9. ops \in Ops
  BY <1>7, RestrictedDoc
<1>10. m \in Message /\ m.cmd = "ack" /\ m.ops = ops
  BY <1>8, <1>9 DEF Message
<1>11. /\ Clean(own) /\ n \in Nat /\ Len(own) \in Nat
       /\ \A j \in n + 1 .. Len(own) : \A x \in own[j].left : server[x] = Gone
  BY LeftGone
<1> HIDE DEF n, own, msgs
<1>12. /\ next = Atop(ops, server) /\ own[k].left \subseteq DOMAIN ops
       /\ own[k].applied = Nothing \/ next = Over(own[k].applied, server)
       /\ \A j \in k + 1 .. Len(own) : \A x \in own[j].left : next[x] = Gone
       /\ \A x \in Waypoints : Untouched(own, x) => next[x] = server[x] /\ x \notin DOMAIN ops
  <2> HIDE DEF k
  <2>1. \A j \in k .. Len(own) : \A x \in own[j].left : server[x] = Gone
    BY <1>11 DEF k
  <2> QED
    BY <1>1, <1>2, <1>4, <1>7, <1>11, <2>1, AcceptedIs
<1>13. \A x \in c.live.placed : next[x] = Gone /\ x \notin DOMAIN ops
  BY <1>1, <1>12 DEF Hand, own
<1>14. CASE c.deferred # << >>
  <2>1. c' = [c EXCEPT !.deferred = Append(@, m)]
    BY <1>8, <1>10, <1>14 DEF Hear
  <2>2. Told(own, m, n + 1, server, next)
    BY <1>10, <1>12 DEF Told
  <2>3. \A j \in n + (IF m.cmd = "ack" THEN 1 ELSE 0) + 1 .. Len(own) : \A x \in own[j].left : next[x] = Gone
    BY <1>10, <1>12
  <2>4. PICK d : d = c'
    OBVIOUS
  <2>5. d = [c EXCEPT !.deferred = Append(@, m)]
    BY <2>1, <2>4
  <2>6. Kept(d, next)
    BY <1>1, <1>7, <1>10, <1>13, <2>2, <2>3, <2>5, WaitsKept DEF n, own, msgs
  <2> QED
    BY <1>6, <2>4, <2>6
<1>15. CASE c.deferred = << >>
  <2>1. c' = ApplyAck(c, m)
    BY <1>8, <1>10, <1>15 DEF Hear
  <2>2. n = 0 /\ k = 1
    <3>1. n = 0
      BY <1>15, NoneWaits DEF n, msgs
    <3> QED
      BY <3>1
  <2>3. own # << >>
    BY <1>2
  <2>4. /\ own[1].left \subseteq DOMAIN m.ops /\ (own[1].applied = Nothing \/ next = Over(own[1].applied, server))
        /\ \A j \in 2 .. Len(own) : \A x \in own[j].left : next[x] = Gone
    BY <1>10, <1>12, <2>2
  <2>5. next = Atop(m.ops, server) /\ \A x \in c.live.placed : next[x] = Gone /\ x \notin DOMAIN m.ops
    BY <1>10, <1>12, <1>13
  <2>6. ApplyAck(c, m).overtaken \/ Kept(ApplyAck(c, m), next)
    BY <1>1, <1>7, <1>10, <1>15, <2>3, <2>4, <2>5, AckKept DEF own
  <2> QED
    BY <1>6, <2>1, <2>6
<1> QED
  BY <1>14, <1>15

\* A refusal takes the request off; the snapshot that comes with it puts the rest right.
LEMMA RefusedKept ==
    ASSUME NEW d \in Canvases, NEW s \in Doc, Kept(d, s), NEW m \in Message, m.cmd = "snapshot", m.doc = s,
           NEW k, k = Nth(d.deferred, Len(d.deferred)) + 1, k \in 1 .. Len(d.own),
           NEW less, less = RemoveAt(d.own, k),
           NEW e, e = [d EXCEPT !.own = less, !.deferred = Append(@, m)]
    PROVE  Kept(e, s)
<1> DEFINE own == d.own
           msgs == d.deferred
           more == Append(msgs, m)
           model == Rewound(d).model
<1>1. own \in Seq(Request) /\ msgs \in Seq(Message) /\ d.live \in Live
  BY CanvasParts
<1>2. more \in Seq(Message)
  BY <1>1, AppendIs
<1>3. /\ less \in Seq(Request) /\ Part(less, own) /\ Len(less) = Len(own) - 1
      /\ \A i \in 1 .. Len(own) - 1 : less[i] = own[IF i < k THEN i ELSE i + 1]
  BY <1>1, RemovePart, RemoveIs
<1>4. /\ e \in Canvases /\ e.deferred = more /\ e.own = less /\ e.model = d.model /\ e.live = d.live
      /\ e.selection = d.selection /\ e.preview = d.preview
  <2> HIDE DEF more
  <2>1. e = [d EXCEPT !.own = less, !.deferred = more]
    BY DEF more
  <2>2. PICK f : f = [d EXCEPT !.own = less]
    OBVIOUS
  <2>3. /\ f \in Canvases /\ f.deferred = d.deferred /\ f.own = less /\ f.model = d.model /\ f.live = d.live
        /\ f.selection = d.selection /\ f.preview = d.preview
    BY <1>3, <2>2 DEF Canvases
  <2>4. e = [f EXCEPT !.deferred = more]
    BY <2>1, <2>2
  <2>5. /\ e \in Canvases /\ e.deferred = more /\ e.own = f.own /\ e.model = f.model /\ e.live = f.live
        /\ e.selection = f.selection /\ e.preview = f.preview
    BY <1>2, <2>3, <2>4 DEF Canvases
  <2> QED
    BY <2>3, <2>5
<1>5. Rewound(e).model = model
  <2>1. e \in Canvases /\ e.model = d.model /\ e.live = d.live /\ d.live \in Live
    BY <1>1, <1>4
  <2>2. UndoGesture(e, d.live).model = UndoGesture(d, d.live).model
    BY <2>1, UndoneSame
  <2> QED
    BY <2>1, <2>2 DEF Rewound
<1>6. Right(own, msgs, model, s) /\ Hand(d, s) /\ d.selection \subseteq Alive(d.model)
  BY DEF Kept
<1>7. k = Nth(msgs, Len(msgs)) + 1 /\ k \in 1 .. Len(own) /\ Nth(msgs, Len(msgs)) \in Nat /\ Len(own) \in Nat
  BY <1>1, AnswersCounted DEF Nth
<1> HIDE DEF own, msgs, model
<1>8. Clean(less) /\ DeletesShown(less, model) /\ \A x : Untouched(own, x) => Untouched(less, x)
  BY <1>1, <1>3, <1>6, PartKeeps DEF Right
<1>9. Nth(more, Len(more)) = Nth(msgs, Len(msgs))
  <2>1. Len(more) = Len(msgs) + 1
    BY <1>1, AppendIs
  <2>2. Nth(more, Len(msgs) + 1) = Nth(msgs, Len(msgs)) + 0
    BY <1>1, NthAppend
  <2> QED
    BY <1>7, <2>1, <2>2
<1>10. ASSUME NEW j \in Nth(more, Len(more)) + 1 .. Len(less), NEW x \in less[j].left
       PROVE  s[x] = Gone
  <2>1. j \in k .. Len(own) - 1
    BY <1>3, <1>7, <1>9
  <2>2. j \in 1 .. Len(own) - 1 /\ ~(j < k) /\ j + 1 \in Nth(msgs, Len(msgs)) + 1 .. Len(own)
    BY <1>7, <2>1
  <2>3. less[j] = own[j + 1]
    BY <1>3, <2>2
  <2> QED
    BY <1>6, <2>2, <2>3, <1>10 DEF Right
<1>11. PICK b : Leads(own, msgs, b, s)
  BY <1>6 DEF Right
<1>12. \A j \in 1 .. Nth(msgs, Len(msgs)) : less[j] = own[j]
  <2> SUFFICES ASSUME NEW j \in 1 .. Nth(msgs, Len(msgs)) PROVE less[j] = own[j]
    OBVIOUS
  <2>1. j \in 1 .. Len(own) - 1 /\ j < k
    BY <1>7
  <2> QED
    BY <1>3, <2>1
<1>13. Leads(less, msgs, b, s)
  BY <1>1, <1>11, <1>12, LeadsOwn
<1>14. Told(less, m, Nth(msgs, Len(msgs)) + 1, s, s)
  BY SnapshotTold
<1>15. \E a : Leads(less, more, a, s) /\ a[0] = b[0]
  BY <1>1, <1>13, <1>14, LeadsAppend
<1>16. Outlived(more, 0)
  BY <1>1, OutlivedAppend
<1>17. Right(less, more, model, s)
  BY <1>8, <1>10, <1>15, <1>16 DEF Right
<1> HIDE DEF more
<1>18. Hand(e, s)
  BY <1>4, <1>6, <1>8 DEF Hand, own
<1> QED
  BY <1>4, <1>5, <1>6, <1>17, <1>18 DEF Kept

LEMMA RefuseKept ==
    ASSUME Sure, Refuse
    PROVE  Kept(c', server')
<1> DEFINE n == Nth(c.deferred, Len(c.deferred))
           k == n + 1
           less == RemoveAt(c.own, k)
           m == [cmd |-> "snapshot", doc |-> server]
           d == [c EXCEPT !.own = less]
<1>1. /\ c.own \in Seq(Request) /\ Kept(c, server) /\ c \in Canvases /\ Held(c) /\ Hand(c, server) /\ server \in Doc
      /\ Good(c) /\ c.deferred \in Seq(Message)
  BY SureParts DEF Sure
<1>2. Answered = n /\ k \in 1 .. Len(c.own)
  <2>1. Unanswered
    BY DEF Refuse
  <2>2. Answered = Waiting(c) /\ Answered + 1 \in 1 .. Len(c.own)
    BY <1>1, <2>1, AnsweredWaits, NextOwnKnown
  <2> QED
    BY <2>2 DEF Waiting, Nth
<1>3. m \in Message /\ m.cmd = "snapshot" /\ m.doc = server
  BY <1>1 DEF Message
<1>4. c' = Hear(d, m) /\ server' = server
  BY <1>1, <1>2 DEF Refuse, Hears, Canvases
<1>5. less \in Seq(Request) /\ Part(less, c.own)
  BY <1>1, <1>2, RemovePart, RemoveIs
<1> HIDE DEF m
<1>6. /\ d \in Canvases /\ d.own = less /\ d.deferred = c.deferred /\ d.live = c.live /\ d.preview = c.preview
  <2> HIDE DEF less
  <2> QED
    BY <1>1, <1>5 DEF Canvases
<1>7. CASE Gesturing(c)
  <2>1. c' = [d EXCEPT !.deferred = Append(@, m)]
    <3>1. Gesturing(d)
      BY <1>6, <1>7 DEF Gesturing
    <3> HIDE DEF d
    <3> QED
      BY <1>3, <1>4, <3>1 DEF Hear
  <2>2. [d EXCEPT !.deferred = Append(@, m)] = [c EXCEPT !.own = less, !.deferred = Append(@, m)]
    <3> HIDE DEF less
    <3> QED
      BY <1>1 DEF Canvases
  <2>3. PICK e, i, l : e = c' /\ i = k /\ l = less
    OBVIOUS
  <2>4. e = [c EXCEPT !.own = l, !.deferred = Append(@, m)] /\ i = Nth(c.deferred, Len(c.deferred)) + 1
        /\ i \in 1 .. Len(c.own) /\ l = RemoveAt(c.own, i)
    BY <1>2, <2>1, <2>2, <2>3
  <2>5. Kept(e, server)
    BY <1>1, <1>3, <2>4, RefusedKept
  <2> QED
    BY <1>4, <2>3, <2>5
<1>8. CASE ~Gesturing(c)
  <2>1. c.deferred = << >> /\ c.preview = NoPreview
    BY <1>1, <1>8, RestingIs DEF Held
  <2>2. c' = Load(d, m)
    <3>1. ~Gesturing(d)
      BY <1>6, <1>8 DEF Gesturing
    <3> HIDE DEF d
    <3> QED
      BY <1>3, <1>4, <3>1 DEF Hear
  <2>3. Clean(c.own) /\ \A j \in 1 .. Len(c.own) : \A x \in c.own[j].left : server[x] = Gone
    <3>1. n = 0
      BY <2>1, NoneWaits
    <3> QED
      BY <3>1, LeftGone
  <2>4. Clean(less)
    BY <1>1, <1>5, <2>3, PartKeeps
  <2>5. \A j \in 1 .. Len(less) : \A x \in less[j].left : server[x] = Gone
    <3> HIDE DEF less
    <3>1. PICK f \in [1 .. Len(less) -> 1 .. Len(c.own)] : \A i \in 1 .. Len(less) : less[i] = c.own[f[i]]
      BY <1>5 DEF Part
    <3> QED
      BY <2>3, <3>1
  <2> HIDE DEF d, less
  <2>6. Kept(Load(d, m), server)
    BY <1>1, <1>3, <1>6, <2>1, <2>4, <2>5, LoadKept
  <2> QED
    BY <1>4, <2>2, <2>6
<1> QED
  BY <1>7, <1>8

-----------------------------------------------------------------------------
(* Every step: what it leaves is right                                      *)

LEMMA PressesKept ==
    ASSUME Sure, Presses
    PROVE  Kept(c', server) /\ Here
<1>1. Kept(c', server)
  BY PressLinkKept, PressHandleKept, PressSelectsKept, PressClonesKept, PressDeletesKept, DoubleKept,
     PressGroundKept, PressInChainKept DEF Presses
<1>2. Here
  BY Zenon DEF Presses, PressLink, PressHandle, PressSelects, PressClones, PressDeletes, Double, PressGround,
               PressInChain, Looks, Asks
<1> QED
  BY <1>1, <1>2

LEMMA DragsKept ==
    ASSUME Sure, Drags
    PROVE  Kept(c', server) /\ Here
<1>1. Kept(c', server)
  BY StartMoveKept, StartCloneKept, DragKept, DragHandleKept, AddStopKept, ChainThroughNodeKept DEF Drags
<1>2. Here
  BY Zenon DEF Drags, StartMove, StartClone, Drag, DragHandle, AddStop, ChainThroughNode, Looks, Asks
<1> QED
  BY <1>1, <1>2

LEMMA ReleasesKept ==
    ASSUME Sure, Releases
    PROVE  Kept(c', server) /\ Here
<1>1. Kept(c', server)
  BY ReleaseMoveKept, ReleaseCloneKept, ReleasePressKept, ReleaseMarqueeKept, ReleaseHandleKept,
     ReleaseBoxKept, StampClickedKept, ReleaseLinkKept, ClickLinkKept DEF Releases
<1>2. ASSUME NEW b, AsksIf(b)
      PROVE  Here
  BY <1>2 DEF AsksIf, Asks
<1>3. CASE ReleaseMove \/ ReleaseClone \/ ReleasePress \/ \E shift \in BOOLEAN : ReleaseMarquee(shift)
  <2>1. Here
    BY <1>3, Zenon DEF ReleaseMove, ReleaseClone, ReleasePress, ReleaseMarquee, Asks
  <2> QED
    BY <1>1, <2>1
<1>4. CASE (\E v \in Places : ReleaseHandle(v)) \/ (\E area \in BOOLEAN : ReleaseBox(area))
  <2>1. Here
    BY <1>2, <1>4, Zenon DEF ReleaseHandle, ReleaseBox, Asks
  <2> QED
    BY <1>1, <2>1
<1>5. CASE (\E w \in Waypoints : StampClicked(w)) \/ (\E hand, pressShift \in BOOLEAN : ClickLink(hand, pressShift))
  <2>1. Here
    BY <1>5, Zenon DEF StampClicked, ClickLink, Asks
  <2> QED
    BY <1>1, <2>1
<1>6. CASE \E t \in Targets, admitted, shift \in BOOLEAN : ReleaseLink(t, admitted, shift)
  <2>1. Here
    BY <1>2, <1>6, Zenon DEF ReleaseLink, Asks
  <2> QED
    BY <1>1, <2>1
<1> QED
  BY <1>3, <1>4, <1>5, <1>6 DEF Releases

LEMMA KeysKept ==
    ASSUME Sure, Keys
    PROVE  Kept(c', server) /\ Here
<1>1. Kept(c', server)
  BY PlaceWaypointKept, NudgeKept, UndoKept, DeleteKept, SelectAllKept, EscapeKept, PointerLostKept DEF Keys
<1>2. Here
  BY Zenon DEF Keys, PlaceWaypoint, Nudge, Undo, Delete, SelectAll, Escape, PointerLost, Looks, Asks
<1> QED
  BY <1>1, <1>2

LEMMA ServerKept ==
    ASSUME Sure, Server
    PROVE  c'.overtaken \/ Kept(c', server')
<1>1. CASE Lock \/ Unlock
  <2>1. Kept(c', server)
    BY <1>1, LockKept, UnlockKept
  <2>2. server' = server
    BY <1>1 DEF Lock, Unlock, Looks, Here
  <2> QED
    BY <2>1, <2>2
<1>2. CASE \E e \in Entities, v \in Places \cup {Gone} : PeerEdits(e, v)
  BY <1>2, PeerEditsKept
<1>3. CASE SnapshotComes \/ Accept \/ Refuse
  BY <1>3, SnapshotComesKept, AcceptKept, RefuseKept
<1> QED
  BY <1>1, <1>2, <1>3 DEF Server

LEMMA NextKept ==
    ASSUME Sure, Next
    PROVE  c'.overtaken \/ Kept(c', server')
<1>1. CASE Server
  BY <1>1, ServerKept
<1>2. CASE Presses \/ Drags \/ Releases \/ Keys
  <2>1. Kept(c', server) /\ Here
    BY <1>2, PressesKept, DragsKept, ReleasesKept, KeysKept
  <2>2. server' = server
    BY <2>1 DEF Here
  <2> QED
    BY <2>1, <2>2
<1> QED
  BY <1>1, <1>2 DEF Next

\* Cancelled, the canvas would be right, unless an answer overtook a resize.
Undisturbed == c.overtaken \/ Kept(c, server)

LEMMA InitUndisturbed == Init => Undisturbed
<1> SUFFICES ASSUME Init PROVE Undisturbed
  OBVIOUS
<1> DEFINE model == NewCanvas.model
           none == << >>
<1>1. NewCanvas \in Canvases /\ model \in Doc
  BY InitInv, CanvasParts DEF Init, Inv, TypeOK
<1>2. /\ NewCanvas.own = << >> /\ NewCanvas.deferred = << >> /\ NewCanvas.live = Idle
      /\ NewCanvas.preview = NoPreview /\ NewCanvas.selection = {}
  BY DEF NewCanvas
<1>3. none \in Seq(Request) /\ Len(none) = 0
  OBVIOUS
<1>4. PendingOps(none) = Nothing
  BY <1>3, PendingStep DEF PendingOps
<1> HIDE DEF model, none
<1>5. Clean(none) /\ DeletesShown(none, model) /\ \A j \in 1 .. Len(none) : \A e \in none[j].left : model[e] = Gone
  BY <1>3 DEF Clean, DeletesShown
<1>6. DOMAIN Nothing = {}
  BY DEF Nothing
<1>7. Shows(none, model, model)
  BY <1>4, <1>6, OverAt DEF Shows
<1>8. Right(none, << >>, model, model)
  BY <1>1, <1>3, <1>5, <1>7, RightEmpty
<1>9. Fit(NewCanvas, model)
  BY <1>2, <1>8 DEF Fit, model, none
<1>10. Kept(NewCanvas, model)
  BY <1>1, <1>2, <1>9, IdlePlaces, BareKept
<1> QED
  BY <1>10 DEF Undisturbed, Init, model

LEMMA NextUndisturbed == Inv /\ Undisturbed /\ [Next]_vars => Undisturbed'
<1> SUFFICES ASSUME Inv, Undisturbed, [Next]_vars PROVE Undisturbed'
  OBVIOUS
<1>1. CASE Next /\ c.overtaken
  <2>1. Moves(c, c')
    BY <1>1, NextMoves DEF Inv
  <2> QED
    BY <1>1, <2>1 DEF Moves, Undisturbed
<1>2. CASE Next /\ ~c.overtaken
  <2>1. Sure
    BY <1>2 DEF Sure, Inv, Undisturbed
  <2>2. c'.overtaken \/ Kept(c', server')
    BY <1>2, <2>1, NextKept
  <2> QED
    BY <2>2 DEF Undisturbed
<1>3. CASE UNCHANGED vars
  <2>1. c' = c /\ server' = server
    BY <1>3 DEF vars
  <2> QED
    BY <2>1 DEF Undisturbed
<1> QED
  BY <1>1, <1>2, <1>3

\* At rest, what would be right if it were cancelled is what is shown.
LEMMA UndisturbedRests == Inv /\ Undisturbed => RestShowsStoredUndisturbed
<1> SUFFICES ASSUME Inv, Kept(c, server), ~Gesturing(c)
             PROVE  c.preview = NoPreview /\ \A e \in Entities \ Left : c.model[e] = Stored[e]
  BY DEF Undisturbed, RestShowsStoredUndisturbed, RestShowsStored
<1>1. Sure
  BY DEF Sure, Inv
<1>2. Fit(c, server) /\ c.preview = NoPreview
  BY <1>1, RestingIs
<1>3. c.deferred = << >> /\ c.own \in Seq(Request) /\ server \in Doc
  BY <1>1, SureParts DEF Held
<1>4. Clean(c.own) /\ Shows(c.own, c.model, server)
  BY <1>2, <1>3, RightEmpty DEF Fit
<1>5. Stored = Over(PendingOps(c.own), server)
  BY <1>3, <1>4, ReappliedIs DEF Stored
<1>6. LeftBy(c.own) \subseteq Left
  BY <1>3 DEF LeftBy, Left, ToSet
<1> QED
  BY <1>2, <1>4, <1>5, <1>6 DEF Shows

\* With no gesture in hand the canvas shows the server's document with the tab's own
\* unanswered edits over it, and nothing of a drag, a resize or a copy that was given up
\* (input.js, editing-gestures.js, sync.js): unless an answer came in under a resize.
THEOREM RestIsStored == Spec => []RestShowsStoredUndisturbed
<1>1. Inv /\ Undisturbed /\ [Next]_vars => Undisturbed'
  BY NextUndisturbed
<1> QED
  BY InitUndisturbed, <1>1, UndisturbedRests, InvariantHolds, PTL DEF Spec
=============================================================================

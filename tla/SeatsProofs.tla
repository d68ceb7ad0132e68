----------------------------- MODULE SeatsProofs -----------------------------
(***************************************************************************)
(* What Seats promises of where a session is and where a write lands, for  *)
(* any number of pages, diagrams, edits and moves.                         *)
(***************************************************************************)
EXTENDS Seats, TLAPS, SequenceTheorems, FiniteSetTheorems, WellFoundedInduction

-----------------------------------------------------------------------------
(* What is kept of a sequence                                               *)

LEMMA LeastExists ==
    ASSUME NEW S, S \subseteq Nat, S # {}
    PROVE  \E m \in S : \A k \in S : m <= k
<1>1. PICK m \in S : \A y \in S : ~ (<<y, m>> \in OpToRel(<, Nat))
  BY NatLessThanWellFounded, WFMin, Zenon
<1>2. ASSUME NEW k \in S
      PROVE  m <= k
  <2>1. <<k, m>> \notin OpToRel(<, Nat)
    BY <1>1
  <2>2. ~(k < m)
    BY <2>1 DEF OpToRel
  <2> QED
    BY <2>2
<1> QED
  BY <1>2

\* Induction on the naturals, as a fact about a set.
LEMMA NatFromZero ==
    ASSUME NEW S, S \subseteq Nat, 0 \in S, \A n \in S : n + 1 \in S
    PROVE  S = Nat
<1> SUFFICES ASSUME Nat \ S # {} PROVE FALSE
  OBVIOUS
<1>1. PICK m \in Nat \ S : \A k \in Nat \ S : m <= k
  BY LeastExists
<1>2. m # 0 /\ m - 1 \in Nat /\ ~(m <= m - 1)
  OBVIOUS
<1> QED
  BY <1>1, <1>2

\* What is kept of each beginning of a sequence is what the recursive definition says.
LEMMA KeptExists ==
    ASSUME NEW A, NEW s \in Seq(A), NEW S
    PROVE  Kept(s, S) = [n \in 0 .. Len(s) |->
                IF n = 0 THEN << >>
                ELSE IF s[n] \in S THEN Append(Kept(s, S)[n - 1], s[n]) ELSE Kept(s, S)[n - 1]]
<1> DEFINE Next1(last, n) == IF s[n] \in S THEN Append(last, s[n]) ELSE last
           Keeps(f, k) == f = [n \in 0 .. k |-> IF n = 0 THEN << >> ELSE Next1(f[n - 1], n)]
           T == {k \in Nat : \E f : Keeps(f, k)}
<1>1. 0 \in T
  <2>1. Keeps([n \in 0 .. 0 |-> << >>], 0)
    OBVIOUS
  <2> QED
    BY <2>1
<1>2. ASSUME NEW k \in T
      PROVE  k + 1 \in T
  <2>1. PICK f : Keeps(f, k)
    OBVIOUS
  <2> DEFINE g == [n \in 0 .. k + 1 |-> IF n = k + 1 THEN Next1(f[k], k + 1) ELSE f[n]]
  <2>2. ASSUME NEW n \in 0 .. k + 1
        PROVE  g[n] = IF n = 0 THEN << >> ELSE Next1(g[n - 1], n)
    <3>1. CASE n = k + 1
      BY <3>1
    <3>2. CASE n # k + 1 /\ n # 0
      <4>1. n \in 0 .. k /\ n - 1 \in 0 .. k /\ n - 1 # k + 1 /\ n - 1 \in 0 .. k + 1
        BY <3>2
      <4>2. f[n] = Next1(f[n - 1], n)
        BY <2>1, <3>2, <4>1
      <4> QED
        BY <3>2, <4>1, <4>2
    <3>3. CASE n = 0
      <4>1. 0 \in 0 .. k /\ 0 # k + 1
        OBVIOUS
      <4> QED
        BY <2>1, <3>3, <4>1
    <3> QED
      BY <3>1, <3>2, <3>3
  <2>3. Keeps(g, k + 1)
    <3> HIDE DEF Next1
    <3>1. g = [n \in 0 .. k + 1 |-> g[n]]
      OBVIOUS
    <3> HIDE DEF g
    <3> QED
      BY <2>2, <3>1
  <2>4. k + 1 \in Nat
    OBVIOUS
  <2> HIDE DEF g, Keeps
  <2> QED
    BY <2>3, <2>4
<1>3. Len(s) \in T
  <2>1. T = Nat
    <3> HIDE DEF T
    <3>1. T \subseteq Nat
      BY DEF T
    <3> QED
      BY <1>1, <1>2, <3>1, NatFromZero
  <2> QED
    BY <2>1, LenProperties
<1> QED
  BY <1>3, Zenon DEF Kept

LEMMA KeptStep ==
    ASSUME NEW A, NEW s \in Seq(A), NEW S
    PROVE  /\ Kept(s, S)[0] = << >>
           /\ \A n \in 1 .. Len(s) :
                Kept(s, S)[n] = IF s[n] \in S THEN Append(Kept(s, S)[n - 1], s[n]) ELSE Kept(s, S)[n - 1]
<1> DEFINE f == Kept(s, S)
<1>1. f = [n \in 0 .. Len(s) |-> IF n = 0 THEN << >>
              ELSE IF s[n] \in S THEN Append(f[n - 1], s[n]) ELSE f[n - 1]]
  BY KeptExists
<1>2. Len(s) \in Nat
  OBVIOUS
<1> HIDE DEF f
<1>3. \A n \in 0 .. Len(s) : f[n] = IF n = 0 THEN << >>
              ELSE IF s[n] \in S THEN Append(f[n - 1], s[n]) ELSE f[n - 1]
  BY <1>1
<1>4. 0 \in 0 .. Len(s) /\ \A n \in 1 .. Len(s) : n \in 0 .. Len(s) /\ n # 0
  BY <1>2
<1> QED
  BY <1>3, <1>4 DEF f

\* What is kept of a sequence is made of its members.
LEMMA WithinMembers ==
    ASSUME NEW A, NEW s \in Seq(A), NEW S
    PROVE  /\ Within(s, S) \in Seq(A)
           /\ \A i \in DOMAIN Within(s, S) : \E j \in DOMAIN s : Within(s, S)[i] = s[j]
           /\ s = << >> => Within(s, S) = << >>
<1> DEFINE Of(t, k) == t \in Seq(A) /\ \A i \in 1 .. Len(t) : \E j \in 1 .. k : t[i] = s[j]
           T == {k \in Nat : k <= Len(s) => Of(Kept(s, S)[k], k)}
<1>0. Kept(s, S)[0] = << >>
  BY KeptStep
<1>1. 0 \in T
  <2>1. << >> \in Seq(A) /\ Len(<< >>) = 0 /\ 1 .. 0 = {}
    OBVIOUS
  <2> QED
    BY <1>0, <2>1
<1>2. ASSUME NEW k \in T
      PROVE  k + 1 \in T
  <2>1. SUFFICES ASSUME k + 1 <= Len(s) PROVE Of(Kept(s, S)[k + 1], k + 1)
    OBVIOUS
  <2>2. k + 1 \in 1 .. Len(s) /\ (k + 1) - 1 = k /\ k <= Len(s)
    BY <2>1
  <2>3. Kept(s, S)[k + 1] = IF s[k + 1] \in S THEN Append(Kept(s, S)[k], s[k + 1]) ELSE Kept(s, S)[k]
    BY <2>2, KeptStep
  <2>4. Of(Kept(s, S)[k], k) /\ s[k + 1] \in A
    BY <2>2, ElementOfSeq
  <2> DEFINE t == Kept(s, S)[k]
  <2> HIDE DEF t
  <2>5. Of(t, k) => Of(t, k + 1) /\ Of(Append(t, s[k + 1]), k + 1)
    <3> SUFFICES ASSUME Of(t, k) PROVE Of(t, k + 1) /\ Of(Append(t, s[k + 1]), k + 1)
      OBVIOUS
    <3>1. 1 .. k \subseteq 1 .. k + 1 /\ k + 1 \in 1 .. k + 1
      OBVIOUS
    <3>2. /\ Append(t, s[k + 1]) \in Seq(A) /\ Len(Append(t, s[k + 1])) = Len(t) + 1
          /\ \A i \in 1 .. Len(t) : Append(t, s[k + 1])[i] = t[i]
          /\ Append(t, s[k + 1])[Len(t) + 1] = s[k + 1]
      BY <2>4, AppendProperties
    <3>3. Len(t) \in Nat /\ \A i \in 1 .. Len(t) + 1 : i \in 1 .. Len(t) \/ i = Len(t) + 1
      OBVIOUS
    <3> QED
      BY <3>1, <3>2, <3>3
  <2> QED
    BY <2>3, <2>4, <2>5 DEF t
<1>3. T = Nat
  <2>1. T \subseteq Nat
    OBVIOUS
  <2> HIDE DEF T
  <2> QED
    BY <1>1, <1>2, <2>1, NatFromZero
<1>4. Of(Kept(s, S)[Len(s)], Len(s))
  <2>1. Len(s) \in Nat /\ Len(s) <= Len(s)
    OBVIOUS
  <2>2. Len(s) \in T
    BY <1>3, <2>1
  <2> HIDE DEF Of
  <2> QED
    BY <2>1, <2>2
<1>5. s = << >> => Kept(s, S)[Len(s)] = << >>
  BY <1>0
<1> QED
  BY <1>4, <1>5 DEF Within

-----------------------------------------------------------------------------
(* The invariant                                                            *)

\* An edit may be in a document: it was drawn there, or on the template it is a
\* fork of, or before the page knew of any.
Fits(e, d) ==
    /\ e \in 1..edits
    /\ made[e] = d \/ made[e] = None \/ (made[e] = Template /\ d \in forkOf)

Unbound(e) == e \in 1..edits /\ made[e] = None

\* A page that has not heard of any diagram, nor asked for one.
Virgin(t) == ~t.hydrated /\ ~t.expect

\* What waits on a page fits the document it is stamped with and the one on show.
Outbox(t) ==
    \A i \in DOMAIN t.outbox :
        /\ t.outbox[i].diagram = t.diagram
        /\ Fits(t.outbox[i].e, t.diagram) /\ Fits(t.outbox[i].e, t.model)
Saved(t) == \A i \in DOMAIN t.saved.msgs : Fits(t.saved.msgs[i].e, t.saved.diagram)
Shown(t) ==
    /\ t.model = t.diagram \/ (t.model = Template /\ t.diagram \in forkOf)
    /\ t.hydrated => t.model # None
    /\ ~t.hydrated => t.outbox = <<>>
    /\ Virgin(t) => t.model = None /\ \A e \in t.holds : Unbound(e)
WellTab(t) == Outbox(t) /\ Saved(t) /\ Shown(t)

WellUp(m) ==
    /\ m.cmd = "commit" => Fits(m.e, m.diagram)
    /\ m.cmd = "create" => \A e \in m.doc : Unbound(e)
WellDown(m) == m.cmd = "forked" => m.diagram \in forkOf

Snap(q, i) == q[i].cmd = "snapshot"

\* The page that shows `model` will show `d` once it has heard what comes before
\* the i-th of `q`.
On(d, model, q, i) ==
    \E j \in 0 .. i - 1 :
        /\ IF j = 0 THEN model = d ELSE Snap(q, j) /\ q[j].diagram = d
        /\ \A k \in j + 1 .. i - 1 : ~Snap(q, k)

Asked    == \A p \in Page : \A i \in DOMAIN up[p] : WellUp(up[p][i])
Answered == \A p \in Page : \A i \in DOMAIN down[p] : WellDown(down[p][i])
Messages == Asked /\ Answered
Tabs   == \A p \in Page : WellTab(tab[p])
\* A page that hears of its fork shows the template.
Forked == \A p \in Page : \A i \in DOMAIN down[p] :
              down[p][i].cmd = "forked" => On(Template, tab[p].model, down[p], i)
\* Nothing is committed or forked by a page that shows no diagram.
Unnamed == \A p \in Page : tab[p].model = None =>
               /\ \A i \in DOMAIN up[p] : up[p][i].cmd # "commit"
               /\ \A i \in DOMAIN down[p] : down[p][i].cmd # "forked"
\* A session on the template has a page that will show it, or none yet.
OnTemplate == \A p \in Page : seat[p] = Template =>
                  \/ On(Template, tab[p].model, down[p], Len(down[p]) + 1)
                  \/ On(None, tab[p].model, down[p], Len(down[p]) + 1)
\* The first thing such a page hears of its diagram is a snapshot.
First == \A p \in Page : Virgin(tab[p]) =>
             /\ seat[p] # None => \E j \in DOMAIN down[p] : Snap(down[p], j)
             /\ \A i \in DOMAIN down[p] : down[p][i].cmd \in {"ack", "change"}
                                            => \E j \in 1 .. i - 1 : Snap(down[p], j)
\* A page resumes first, before its session is anywhere.
Resuming == \A p \in Page : \A i \in DOMAIN up[p] : up[p][i].cmd = "resume" =>
                /\ i = 1 /\ seat[p] = None /\ up[p][i].diagram = tab[p].model
                /\ ~Virgin(tab[p])
                /\ \A j \in DOMAIN down[p] : down[p][j].cmd \in {"access", "error"}
Closed == \A p \in Page : ~open[p] => up[p] = <<>> /\ down[p] = <<>> /\ seat[p] = None

Copies == doc[Template] = {} /\ \A p \in Page : fork[p] \in forkOf \cup {None}
Lands  == \A d \in Doc : \A e \in doc[d] : Fits(e, d)
SeatsMinted == \A p \in Page : seat[p] \in Diagram => seat[p] \in Minted

Wire == Messages /\ Forked /\ Unnamed /\ OnTemplate /\ First /\ Resuming /\ Closed
Inv  == TypeOK /\ Tabs /\ Wire /\ Copies /\ Lands /\ SeatsMinted /\ SeatsMayRead

-----------------------------------------------------------------------------
(* Messages and their fields                                                *)

LEMMA Named == Template # None /\ Template \notin Diagram /\ None \notin Diagram /\ None \notin Doc /\ Doc \subseteq Ids
  BY SeatsAssumption DEF Doc, Ids

LEMMA EditsFinite ==
    ASSUME NEW S, S \subseteq Edit
    PROVE  Cardinality(S) \in Nat
<1>1. IsFiniteSet(1 .. MaxEdits)
  BY FS_Interval, SeatsAssumption
<1> QED
  BY <1>1, FS_Subset, FS_CardinalityType DEF Edit

LEMMA DownFields ==
    ASSUME NEW m \in Down
    PROVE  /\ m.cmd = "snapshot" => /\ m.diagram \in Doc /\ m.doc \subseteq Edit
                                    /\ m.write \in BOOLEAN /\ m.listed \subseteq Doc
           /\ m.cmd = "forked" => m.diagram \in Diagram
           /\ m.cmd = "ack" => m.e \in Edit /\ m.version \in Nat /\ m.replayed \in BOOLEAN
           /\ m.cmd = "change" => m.e \in Edit /\ m.version \in Nat
           /\ m.cmd \in {"snapshot", "sync", "forked", "ack", "change", "access", "error"}
  BY DEF Down

LEMMA UpFields ==
    ASSUME NEW m \in Up
    PROVE  /\ m.cmd \in {"hello", "open", "delete"} => m.diagram \in Ids
           /\ m.cmd = "create" => m.doc \subseteq Edit
           /\ m.cmd = "commit" => m.e \in Edit /\ m.diagram \in Doc
           /\ m.cmd = "resume" => m.diagram \in Ids /\ m.version \in Nat
           /\ m.cmd \in {"hello", "open", "delete", "create", "commit", "resume"}
  BY DEF Up

LEMMA IsDown ==
    /\ \A d \in Doc, s \in SUBSET Edit, w \in BOOLEAN, l \in SUBSET Doc :
         [cmd |-> "snapshot", diagram |-> d, doc |-> s, write |-> w, listed |-> l] \in Down
    /\ \A f \in Diagram : [cmd |-> "forked", diagram |-> f] \in Down
    /\ [cmd |-> "sync"] \in Down /\ [cmd |-> "access"] \in Down
    /\ \A e \in Edit, v \in Nat, r \in BOOLEAN :
         [cmd |-> "ack", e |-> e, version |-> v, replayed |-> r] \in Down
    /\ \A e \in Edit, v \in Nat : [cmd |-> "change", e |-> e, version |-> v] \in Down
    /\ \A e \in Edit \cup {0} : Error(e) \in Down
  BY DEF Down, Error

LEMMA IsUp ==
    /\ \A d \in Ids : /\ [cmd |-> "open", diagram |-> d] \in Up
                      /\ [cmd |-> "hello", diagram |-> d] \in Up
                      /\ [cmd |-> "delete", diagram |-> d] \in Up
    /\ \A s \in SUBSET Edit : [cmd |-> "create", doc |-> s] \in Up
    /\ \A e \in Edit, d \in Doc : [cmd |-> "commit", e |-> e, diagram |-> d] \in Up
    /\ \A d \in Ids, v \in Nat : [cmd |-> "resume", diagram |-> d, version |-> v] \in Up
  BY DEF Up

LEMMA TabFields ==
    ASSUME NEW t \in Tab
    PROVE  /\ t.hydrated \in BOOLEAN /\ t.expect \in BOOLEAN /\ t.mayWrite \in BOOLEAN /\ t.resync \in BOOLEAN
           /\ t.diagram \in Ids /\ t.model \in Ids /\ t.holds \subseteq Edit /\ t.version \in Nat
           /\ t.outbox \in Seq(Waiting) /\ t.last \in Ids /\ t.listed \subseteq Doc
           /\ t.saved \in [diagram : Ids, msgs : Seq(Waiting)]
           /\ t.saved.diagram \in Ids /\ t.saved.msgs \in Seq(Waiting)
  BY DEF Tab

-----------------------------------------------------------------------------
(* The page's operators                                                     *)

Result == [t : Tab, out : Seq(Up)]

\* What an operator of a page may do to it and send, whatever it heard.
Sound(t, r) ==
    /\ r \in Result /\ WellTab(r.t)
    /\ Virgin(r.t) => Virgin(t)
    /\ r.t.model = None => t.model = None
    /\ \A i \in DOMAIN r.out :
         WellUp(r.out[i]) /\ r.out[i].cmd # "resume" /\ (r.out[i].cmd = "commit" => r.t.model # None)

LEMMA PersistSound ==
    ASSUME NEW t \in Tab, Outbox(t), Shown(t)
    PROVE  /\ Persist(t) \in Tab /\ WellTab(Persist(t))
           /\ Persist(t).model = t.model /\ Persist(t).outbox = t.outbox /\ Persist(t).diagram = t.diagram
           /\ Persist(t).hydrated = t.hydrated /\ Persist(t).expect = t.expect /\ Persist(t).mayWrite = t.mayWrite
<1> DEFINE u == Persist(t)
<1>1. u \in Tab
  BY DEF Persist, Tab
<1>2. /\ u.model = t.model /\ u.outbox = t.outbox /\ u.diagram = t.diagram
      /\ u.hydrated = t.hydrated /\ u.expect = t.expect /\ u.mayWrite = t.mayWrite /\ u.holds = t.holds
      /\ u.saved = [diagram |-> t.model, msgs |-> t.outbox]
  BY DEF Persist, Tab
<1> HIDE DEF u
<1>3. Outbox(u) /\ Shown(u) /\ Saved(u)
  BY <1>2 DEF Outbox, Shown, Saved, Virgin
<1> QED
  BY <1>1, <1>2, <1>3 DEF u, WellTab

LEMMA WaitingFields ==
    ASSUME NEW w \in Waiting
    PROVE  w.e \in Edit /\ w.diagram \in Doc
  BY DEF Waiting

LEMMA WithoutMembers ==
    ASSUME NEW s \in Seq(Waiting), NEW es
    PROVE  /\ Without(s, es) \in Seq(Waiting)
           /\ \A i \in DOMAIN Without(s, es) : \E j \in DOMAIN s : Without(s, es)[i] = s[j]
           /\ s = << >> => Without(s, es) = << >>
  BY WithinMembers DEF Without

\* An outbox marked sent, or unsent, is otherwise as it was.
LEMMA MarkedIs ==
    ASSUME NEW s \in Seq(Waiting), NEW b \in BOOLEAN
    PROVE  LET u == [i \in DOMAIN s |-> [s[i] EXCEPT !.sent = b]]
           IN  /\ u \in Seq(Waiting) /\ DOMAIN u = DOMAIN s /\ (s = << >> => u = << >>)
               /\ \A i \in DOMAIN s : u[i].e = s[i].e /\ u[i].diagram = s[i].diagram
<1> DEFINE u == [i \in DOMAIN s |-> [s[i] EXCEPT !.sent = b]]
<1>1. ASSUME NEW i \in DOMAIN s
      PROVE  s[i] \in Waiting /\ u[i] \in Waiting /\ u[i].e = s[i].e /\ u[i].diagram = s[i].diagram
  <2>1. s[i] \in Waiting
    OBVIOUS
  <2> QED
    BY <2>1 DEF Waiting
<1>2. Len(s) \in Nat /\ DOMAIN s = 1 .. Len(s) /\ u = [i \in 1 .. Len(s) |-> u[i]]
  OBVIOUS
<1>3. DOMAIN u = DOMAIN s
  OBVIOUS
<1> HIDE DEF u
<1>4. u \in Seq(Waiting)
  BY <1>1, <1>2
<1>5. s = << >> => u = << >>
  <2> SUFFICES ASSUME s = << >> PROVE u = << >>
    OBVIOUS
  <2>1. Len(u) = 0
    BY <1>2, <1>3, <1>4
  <2> QED
    BY <1>4, <2>1, EmptySeq
<1> QED
  BY <1>1, <1>3, <1>4, <1>5 DEF u

LEMMA DrainSound ==
    ASSUME NEW t \in Tab, NEW isOpen \in BOOLEAN, WellTab(t)
    PROVE  Sound(t, Drain(t, isOpen)) /\ Drain(t, isOpen).t.model = t.model
<1>1. CASE ~isOpen \/ ~t.mayWrite
  <2>1. Drain(t, isOpen) = [t |-> t, out |-> << >>]
    BY <1>1 DEF Drain
  <2>2. << >> \in Seq(Up) /\ DOMAIN << >> = {}
    OBVIOUS
  <2> QED
    BY <2>1, <2>2 DEF Sound, Result
<1>2. CASE ~(~isOpen \/ ~t.mayWrite)
  <2> DEFINE marked == [i \in DOMAIN t.outbox |-> [t.outbox[i] EXCEPT !.sent = TRUE]]
             u      == [t EXCEPT !.outbox = marked]
             still  == {m \in ToSet(t.outbox) : ~m.sent}
             unsent == Within(t.outbox, still)
             out    == [i \in DOMAIN unsent |-> [cmd |-> "commit", e |-> unsent[i].e, diagram |-> unsent[i].diagram]]
  <2>1. Drain(t, isOpen) = [t |-> u, out |-> out]
    BY <1>2 DEF Drain, Tab
  <2>2. t.outbox \in Seq(Waiting)
    BY TabFields
  <2>3. /\ marked \in Seq(Waiting) /\ DOMAIN marked = DOMAIN t.outbox /\ (t.outbox = << >> => marked = << >>)
        /\ \A i \in DOMAIN t.outbox : marked[i].e = t.outbox[i].e /\ marked[i].diagram = t.outbox[i].diagram
    BY <2>2, MarkedIs
  <2>4. /\ unsent \in Seq(Waiting) /\ (t.outbox = << >> => unsent = << >>)
        /\ \A i \in DOMAIN unsent : \E j \in DOMAIN t.outbox : unsent[i] = t.outbox[j]
    <3> HIDE DEF still
    <3> QED
      BY <2>2, WithinMembers
  <2> HIDE DEF marked, unsent
  <2>5. /\ u \in Tab /\ u.outbox = marked /\ u.model = t.model /\ u.diagram = t.diagram /\ u.saved = t.saved
        /\ u.hydrated = t.hydrated /\ u.expect = t.expect /\ u.holds = t.holds
    BY <2>3 DEF Tab
  <2> HIDE DEF u
  <2>6. WellTab(u) /\ (Virgin(u) => Virgin(t))
    BY <2>3, <2>5 DEF WellTab, Outbox, Saved, Shown, Virgin
  <2>7. ASSUME NEW i \in DOMAIN unsent
        PROVE  /\ out[i] = [cmd |-> "commit", e |-> unsent[i].e, diagram |-> unsent[i].diagram]
               /\ out[i] \in Up /\ WellUp(out[i]) /\ t.model # None
    <3>1. PICK j \in DOMAIN t.outbox : unsent[i] = t.outbox[j]
      BY <2>4
    <3>2. t.outbox[j] \in Waiting
      BY <2>2
    <3>3. out[i] \in Up
      BY <3>1, <3>2, WaitingFields, IsUp
    <3>4. Fits(t.outbox[j].e, t.outbox[j].diagram)
      BY DEF WellTab, Outbox
    <3>5. t.hydrated /\ t.model # None
      <4>1. t.outbox # << >>
        BY <2>2
      <4> QED
        BY <4>1 DEF WellTab, Shown
    <3> QED
      BY <3>1, <3>3, <3>4, <3>5 DEF WellUp
  <2>8. DOMAIN out = DOMAIN unsent
    OBVIOUS
  <2>9. out \in Seq(Up)
    <3>1. Len(unsent) \in Nat /\ DOMAIN unsent = 1 .. Len(unsent) /\ out = [i \in 1 .. Len(unsent) |-> out[i]]
      BY <2>4
    <3> HIDE DEF out
    <3> QED
      BY <2>7, <3>1
  <2>10. \A i \in DOMAIN out :
            WellUp(out[i]) /\ out[i].cmd # "resume" /\ (out[i].cmd = "commit" => u.model # None)
    <3> SUFFICES ASSUME NEW i \in DOMAIN out
                 PROVE  WellUp(out[i]) /\ out[i].cmd # "resume" /\ u.model # None
      OBVIOUS
    <3>1. i \in DOMAIN unsent
      BY <2>8
    <3>2. out[i].cmd = "commit"
      BY <2>7, <3>1
    <3> HIDE DEF out
    <3> QED
      BY <2>5, <2>7, <3>1, <3>2
  <2> HIDE DEF out
  <2> QED
    BY <2>1, <2>5, <2>6, <2>9, <2>10 DEF Sound, Result
<1> QED
  BY <1>1, <1>2

\* A sequence of one message.
LEMMA OneMessage ==
    ASSUME NEW A, NEW m \in A
    PROVE  << m >> \in Seq(A) /\ DOMAIN << m >> = {1} /\ << m >>[1] = m /\ Len(<< m >>) = 1
  OBVIOUS

LEMMA ResyncSound ==
    ASSUME NEW t \in Tab, NEW isOpen \in BOOLEAN, WellTab(t)
    PROVE  Sound(t, Resync(t, isOpen)) /\ Resync(t, isOpen).t.model = t.model
<1>1. CASE ~t.hydrated \/ ~isOpen \/ t.resync
  <2>1. Resync(t, isOpen) = [t |-> t, out |-> << >>]
    BY <1>1 DEF Resync
  <2>2. << >> \in Seq(Up) /\ DOMAIN << >> = {}
    OBVIOUS
  <2> QED
    BY <2>1, <2>2 DEF Sound, Result
<1>2. CASE ~(~t.hydrated \/ ~isOpen \/ t.resync)
  <2> DEFINE u == [t EXCEPT !.resync = TRUE, !.expect = TRUE]
             m == [cmd |-> "open", diagram |-> t.model]
  <2>1. Resync(t, isOpen) = [t |-> u, out |-> << m >>]
    BY <1>2 DEF Resync
  <2>2. /\ u \in Tab /\ u.outbox = t.outbox /\ u.model = t.model /\ u.diagram = t.diagram /\ u.saved = t.saved
        /\ u.hydrated = t.hydrated /\ u.expect = TRUE /\ u.holds = t.holds
    BY DEF Tab
  <2>3. m \in Up /\ WellUp(m) /\ m.cmd = "open"
    BY TabFields, IsUp DEF WellUp
  <2> HIDE DEF u, m
  <2>4. WellTab(u) /\ ~Virgin(u)
    BY <2>2 DEF WellTab, Outbox, Saved, Shown, Virgin
  <2>5. << m >> \in Seq(Up) /\ DOMAIN << m >> = {1} /\ << m >>[1] = m
    BY <2>3, OneMessage
  <2> QED
    BY <2>1, <2>2, <2>3, <2>4, <2>5 DEF Sound, Result
<1> QED
  BY <1>1, <1>2

LEMMA PastFirst ==
    ASSUME NEW a \in Nat, NEW b \in Nat, NEW i \in 1 .. a + b, ~(i <= a)
    PROVE  i - a \in 1 .. b
  OBVIOUS

\* A message of two sequences one after the other is a message of one of them.
LEMMA JoinMembers ==
    ASSUME NEW A, NEW r \in Seq(A), NEW s \in Seq(A)
    PROVE  /\ r \o s \in Seq(A)
           /\ \A i \in DOMAIN (r \o s) : \/ \E j \in DOMAIN r : (r \o s)[i] = r[j]
                                       \/ \E j \in DOMAIN s : (r \o s)[i] = s[j]
<1> DEFINE both == r \o s
<1>1. both \in Seq(A) /\ Len(both) = Len(r) + Len(s)
      /\ \A i \in 1 .. Len(r) + Len(s) :
            both[i] = IF i <= Len(r) THEN r[i] ELSE s[i - Len(r)]
  BY ConcatProperties
<1>2. Len(r) \in Nat /\ Len(s) \in Nat /\ DOMAIN r = 1 .. Len(r) /\ DOMAIN s = 1 .. Len(s)
  OBVIOUS
<1> HIDE DEF both
<1>3. DOMAIN both = 1 .. Len(r) + Len(s)
  BY <1>1
<1>4. ASSUME NEW i \in DOMAIN both
      PROVE  \/ \E j \in DOMAIN r : both[i] = r[j]
             \/ \E j \in DOMAIN s : both[i] = s[j]
  <2>0. i \in 1 .. Len(r) + Len(s)
    BY <1>3
  <2>1. CASE i <= Len(r)
    <3>1. i \in DOMAIN r
      BY <1>2, <2>0, <2>1
    <3> QED
      BY <1>1, <2>0, <2>1, <3>1
  <2>2. CASE ~(i <= Len(r))
    <3>1. i - Len(r) \in DOMAIN s
      BY <1>2, <2>0, <2>2, PastFirst
    <3> QED
      BY <1>1, <2>0, <2>2, <3>1
  <2> QED
    BY <2>1, <2>2
<1> QED
  BY <1>1, <1>4

\* One operator after another.
LEMMA ThenSound ==
    ASSUME NEW t \in Tab, NEW r, NEW s, Sound(t, r), Sound(r.t, s), s.t.model = r.t.model
    PROVE  Sound(t, Then(r, s))
<1>1. r.t \in Tab /\ s.t \in Tab /\ r.out \in Seq(Up) /\ s.out \in Seq(Up)
  BY DEF Sound, Result
<1> DEFINE first == r.out
           last  == s.out
           both  == first \o last
<1>2. /\ both \in Seq(Up)
      /\ \A i \in DOMAIN both : \/ \E j \in DOMAIN first : both[i] = first[j]
                                \/ \E j \in DOMAIN last : both[i] = last[j]
  <2>1. first \in Seq(Up) /\ last \in Seq(Up)
    BY <1>1
  <2> HIDE DEF first, last
  <2> QED
    BY <2>1, JoinMembers
<1> HIDE DEF both
<1>3. Then(r, s) = [t |-> s.t, out |-> both]
  BY DEF Then, both
<1> QED
  BY <1>1, <1>2, <1>3 DEF Sound, Result

LEMMA RestoredFits ==
    ASSUME NEW t \in Tab, NEW d \in Doc, WellTab(t), t.hydrated => t.diagram = d
    PROVE  /\ Restored(t, d) \in Seq(Waiting)
           /\ \A i \in DOMAIN Restored(t, d) : Restored(t, d)[i].diagram = d /\ Fits(Restored(t, d)[i].e, d)
<1>1. t.outbox \in Seq(Waiting) /\ t.saved.msgs \in Seq(Waiting)
  BY TabFields
<1>2. \A i \in DOMAIN t.outbox : t.outbox[i].diagram = d /\ Fits(t.outbox[i].e, d)
  <2>1. CASE t.hydrated
    BY <2>1 DEF WellTab, Outbox
  <2>2. CASE ~t.hydrated
    BY <2>2 DEF WellTab, Shown
  <2> QED
    BY <2>1, <2>2
<1>3. CASE t.saved.diagram # d
  BY <1>1, <1>2, <1>3 DEF Restored
<1>4. CASE t.saved.diagram = d
  <2> DEFINE left == Without(t.saved.msgs, Mine(t.outbox))
             late == [i \in DOMAIN left |-> [left[i] EXCEPT !.diagram = d]]
             both == t.outbox \o late
  <2>1. Restored(t, d) = both
    BY <1>4 DEF Restored
  <2>2. left \in Seq(Waiting) /\ \A i \in DOMAIN left : \E j \in DOMAIN t.saved.msgs : left[i] = t.saved.msgs[j]
    BY <1>1, WithoutMembers
  <2> HIDE DEF left
  <2>3. ASSUME NEW i \in DOMAIN left
        PROVE  late[i] \in Waiting /\ late[i].diagram = d /\ Fits(late[i].e, d)
    <3>1. PICK j \in DOMAIN t.saved.msgs : left[i] = t.saved.msgs[j]
      BY <2>2
    <3>2. left[i] \in Waiting
      BY <2>2
    <3>3. late[i] \in Waiting /\ late[i].diagram = d /\ late[i].e = left[i].e
      BY <3>2 DEF Waiting
    <3> QED
      BY <1>4, <3>1, <3>3 DEF WellTab, Saved
  <2>4. Len(left) \in Nat /\ DOMAIN left = 1 .. Len(left) /\ late = [i \in 1 .. Len(left) |-> late[i]]
        /\ DOMAIN late = DOMAIN left
    BY <2>2
  <2> HIDE DEF late
  <2>5. late \in Seq(Waiting)
    BY <2>3, <2>4
  <2>6. both \in Seq(Waiting)
        /\ \A i \in DOMAIN both : \/ \E j \in DOMAIN t.outbox : both[i] = t.outbox[j]
                                  \/ \E j \in DOMAIN late : both[i] = late[j]
    BY <1>1, <2>5, JoinMembers
  <2> HIDE DEF both
  <2> QED
    BY <1>2, <2>1, <2>3, <2>4, <2>6
<1> QED
  BY <1>3, <1>4

LEMMA MineEdits ==
    ASSUME NEW s \in Seq(Waiting)
    PROVE  Mine(s) \subseteq Edit
<1>1. \A i \in DOMAIN s : s[i].e \in Edit
  BY WaitingFields
<1> QED
  BY <1>1 DEF Mine

\* The document on the page is replaced by the one in a snapshot.
LEMMA LoadedSound ==
    ASSUME NEW t \in Tab, NEW m \in Down, m.cmd = "snapshot", Saved(t), NEW outbox \in Seq(Waiting),
           \A i \in DOMAIN outbox : outbox[i].diagram = m.diagram /\ Fits(outbox[i].e, m.diagram)
    PROVE  LET loaded == Loaded(t, m, outbox)
           IN  loaded \in Tab /\ WellTab(loaded) /\ loaded.model = m.diagram /\ ~Virgin(loaded)
<1> DEFINE marked == [i \in DOMAIN outbox |-> [outbox[i] EXCEPT !.sent = FALSE]]
           number == Cardinality(m.doc)
           holds  == m.doc \cup Mine(outbox)
           loaded == [t EXCEPT !.hydrated = TRUE, !.expect = FALSE, !.resync = FALSE, !.mayWrite = m.write,
                               !.diagram = m.diagram, !.model = m.diagram, !.last = m.diagram,
                               !.version = number, !.holds = holds, !.listed = m.listed,
                               !.outbox = marked]
<1>1. m.diagram \in Doc /\ m.doc \subseteq Edit /\ m.write \in BOOLEAN /\ m.listed \subseteq Doc
  BY DownFields
<1>2. number \in Nat /\ holds \subseteq Edit /\ m.diagram \in Ids /\ m.diagram # None
  BY <1>1, EditsFinite, MineEdits, Named
<1>3. /\ marked \in Seq(Waiting) /\ DOMAIN marked = DOMAIN outbox
      /\ \A i \in DOMAIN outbox : marked[i].e = outbox[i].e /\ marked[i].diagram = outbox[i].diagram
  BY MarkedIs
<1> HIDE DEF marked, number, holds
<1>4. loaded \in Tab
  BY <1>1, <1>2, <1>3 DEF Tab
<1>5. /\ loaded.hydrated = TRUE /\ loaded.outbox = marked /\ loaded.diagram = m.diagram
      /\ loaded.model = m.diagram /\ loaded.saved = t.saved
  BY DEF Tab
<1> HIDE DEF loaded
<1>6. WellTab(loaded) /\ ~Virgin(loaded)
  BY <1>2, <1>3, <1>5 DEF WellTab, Outbox, Saved, Shown, Virgin
<1> QED
  BY <1>4, <1>5, <1>6 DEF Loaded, loaded, marked, number, holds

\* What a page has heard, up to what it shows.
LEMMA OnSnapshotSound ==
    ASSUME NEW t \in Tab, NEW m \in Down, WellTab(t), m.cmd = "snapshot"
    PROVE  /\ Sound(t, OnSnapshot(t, m)) /\ ~Virgin(OnSnapshot(t, m).t)
           /\ OnSnapshot(t, m).t.model = m.diagram \/ (Virgin(t) /\ OnSnapshot(t, m).t.model = t.model)
<1>1. CASE ~t.expect /\ ~t.hydrated /\ t.holds # {}
  <2> DEFINE u == [t EXCEPT !.expect = TRUE]
             c == [cmd |-> "create", doc |-> t.holds]
  <2>1. OnSnapshot(t, m) = [t |-> u, out |-> << c >>]
    BY <1>1 DEF OnSnapshot
  <2>2. /\ u \in Tab /\ u.outbox = t.outbox /\ u.model = t.model /\ u.diagram = t.diagram /\ u.saved = t.saved
        /\ u.hydrated = t.hydrated /\ u.expect = TRUE /\ u.holds = t.holds
    BY DEF Tab
  <2>3. c \in Up /\ WellUp(c) /\ c.cmd = "create"
    BY <1>1, TabFields, IsUp DEF WellUp, WellTab, Shown, Virgin
  <2> HIDE DEF u, c
  <2>4. WellTab(u) /\ ~Virgin(u)
    BY <2>2 DEF WellTab, Outbox, Saved, Shown, Virgin
  <2>5. << c >> \in Seq(Up) /\ DOMAIN << c >> = {1} /\ << c >>[1] = c
    BY <2>3, OneMessage
  <2>6. Virgin(t)
    BY <1>1 DEF Virgin
  <2> QED
    BY <2>1, <2>2, <2>3, <2>4, <2>5, <2>6 DEF Sound, Result
<1>2. CASE ~(~t.expect /\ ~t.hydrated /\ t.holds # {})
  <2> DEFINE switched == t.hydrated /\ t.diagram # m.diagram
             outbox   == IF switched THEN << >> ELSE Restored(t, m.diagram)
             loaded   == Loaded(t, m, outbox)
             page     == IF switched THEN Persist(loaded) ELSE loaded
  <2>1. OnSnapshot(t, m) = Drain(page, TRUE)
    BY <1>2 DEF OnSnapshot
  <2>2. /\ outbox \in Seq(Waiting)
        /\ \A i \in DOMAIN outbox : outbox[i].diagram = m.diagram /\ Fits(outbox[i].e, m.diagram)
    <3>1. CASE switched
      <4>1. outbox = << >> /\ << >> \in Seq(Waiting) /\ DOMAIN << >> = {}
        BY <3>1
      <4> QED
        BY <4>1
    <3>2. CASE ~switched
      <4>1. outbox = Restored(t, m.diagram) /\ m.diagram \in Doc /\ (t.hydrated => t.diagram = m.diagram)
        BY <3>2, DownFields
      <4> QED
        BY <4>1, RestoredFits
    <3> QED
      BY <3>1, <3>2
  <2> HIDE DEF outbox
  <2>3. loaded \in Tab /\ WellTab(loaded) /\ loaded.model = m.diagram /\ ~Virgin(loaded)
    <3>1. Saved(t)
      BY DEF WellTab
    <3> QED
      BY <2>2, <3>1, LoadedSound
  <2> HIDE DEF loaded, switched
  <2>4. page \in Tab /\ WellTab(page) /\ page.model = m.diagram /\ ~Virgin(page)
    BY <2>3, PersistSound DEF WellTab, Virgin
  <2> HIDE DEF page
  <2>5. Sound(page, Drain(page, TRUE)) /\ Drain(page, TRUE).t.model = m.diagram
    BY <2>4, DrainSound
  <2>6. m.diagram # None
    BY DownFields, Named
  <2> QED
    BY <2>1, <2>4, <2>5, <2>6 DEF Sound
<1> QED
  BY <1>1, <1>2

LEMMA OnSyncSound ==
    ASSUME NEW t \in Tab, WellTab(t)
    PROVE  Sound(t, OnSync(t)) /\ OnSync(t).t.model = t.model
<1> DEFINE marked == [i \in DOMAIN t.outbox |-> [t.outbox[i] EXCEPT !.sent = FALSE]]
           u      == [t EXCEPT !.outbox = marked]
<1>1. OnSync(t) = Drain(u, TRUE)
  BY DEF OnSync
<1>2. /\ marked \in Seq(Waiting) /\ DOMAIN marked = DOMAIN t.outbox /\ (t.outbox = << >> => marked = << >>)
      /\ \A i \in DOMAIN t.outbox : marked[i].e = t.outbox[i].e /\ marked[i].diagram = t.outbox[i].diagram
  <2>1. t.outbox \in Seq(Waiting)
    BY TabFields
  <2> QED
    BY <2>1, MarkedIs
<1> HIDE DEF marked
<1>3. /\ u \in Tab /\ u.outbox = marked /\ u.model = t.model /\ u.diagram = t.diagram /\ u.saved = t.saved
      /\ u.hydrated = t.hydrated /\ u.expect = t.expect /\ u.holds = t.holds
  BY <1>2 DEF Tab
<1> HIDE DEF u
<1>4. WellTab(u) /\ (Virgin(u) => Virgin(t))
  BY <1>2, <1>3 DEF WellTab, Outbox, Saved, Shown, Virgin
<1>5. Sound(u, Drain(u, TRUE)) /\ Drain(u, TRUE).t.model = t.model
  BY <1>3, <1>4, DrainSound
<1> QED
  BY <1>1, <1>3, <1>4, <1>5 DEF Sound

\* A page that hears of its fork asks for it, and stamps what it draws with it.
LEMMA OnForkedSound ==
    ASSUME NEW t \in Tab, NEW m \in Down, WellTab(t), m.cmd = "forked", WellDown(m), t.model = Template
    PROVE  Sound(t, OnForked(t, m)) /\ OnForked(t, m).t.model = t.model
<1> DEFINE u == [t EXCEPT !.diagram = m.diagram, !.outbox = <<>>, !.expect = TRUE]
           c == [cmd |-> "open", diagram |-> m.diagram]
           r == Persist(u)
<1>1. OnForked(t, m) = [t |-> r, out |-> << c >>]
  BY DEF OnForked
<1>2. m.diagram \in Diagram /\ m.diagram \in Ids /\ m.diagram \in forkOf /\ Template # None
  BY DownFields, Named DEF WellDown, Ids, Doc
<1>3. /\ u \in Tab /\ u.outbox = << >> /\ u.model = Template /\ u.diagram = m.diagram /\ u.saved = t.saved
      /\ u.hydrated = t.hydrated /\ u.expect = TRUE
  <2>1. << >> \in Seq(Waiting)
    OBVIOUS
  <2> QED
    BY <1>2, <2>1 DEF Tab
<1>4. c \in Up /\ WellUp(c) /\ c.cmd = "open"
  BY <1>2, IsUp DEF WellUp
<1> HIDE DEF u, c
<1>5. Outbox(u) /\ Shown(u)
  BY <1>2, <1>3 DEF Outbox, Shown, Virgin
<1>6. r \in Tab /\ WellTab(r) /\ r.model = Template /\ ~Virgin(r)
  BY <1>3, <1>5, PersistSound DEF Virgin
<1> HIDE DEF r
<1>7. << c >> \in Seq(Up) /\ DOMAIN << c >> = {1} /\ << c >>[1] = c
  BY <1>4, OneMessage
<1> QED
  BY <1>1, <1>2, <1>4, <1>6, <1>7 DEF Sound, Result

\* Taking one request out of the outbox.
LEMMA TakenSound ==
    ASSUME NEW t \in Tab, WellTab(t), NEW es, NEW holds \in SUBSET Edit, NEW version \in Nat,
           holds = t.holds \/ ~Virgin(t)
    PROVE  LET u == Persist([t EXCEPT !.outbox = Without(t.outbox, es), !.holds = holds, !.version = version])
           IN  u \in Tab /\ WellTab(u) /\ u.model = t.model /\ (Virgin(u) => Virgin(t))
<1> DEFINE kept == Without(t.outbox, es)
           u == [t EXCEPT !.outbox = kept, !.holds = holds, !.version = version]
<1>1. /\ kept \in Seq(Waiting) /\ (t.outbox = << >> => kept = << >>)
      /\ \A i \in DOMAIN kept : \E j \in DOMAIN t.outbox : kept[i] = t.outbox[j]
  BY TabFields, WithoutMembers
<1> HIDE DEF kept
<1>2. /\ u \in Tab /\ u.outbox = kept /\ u.model = t.model /\ u.diagram = t.diagram /\ u.saved = t.saved
      /\ u.hydrated = t.hydrated /\ u.expect = t.expect /\ u.holds = holds
  BY <1>1 DEF Tab
<1> HIDE DEF u
<1>3. Outbox(u) /\ Shown(u)
  BY <1>1, <1>2 DEF WellTab, Outbox, Shown, Virgin
<1>4. /\ Persist(u) \in Tab /\ WellTab(Persist(u)) /\ Persist(u).model = t.model
      /\ (Virgin(Persist(u)) => Virgin(t))
  BY <1>2, <1>3, PersistSound DEF Virgin
<1> QED
  BY <1>4 DEF u, kept

LEMMA OnAckSound ==
    ASSUME NEW t \in Tab, NEW m \in Down, WellTab(t), m.cmd = "ack", ~Virgin(t)
    PROVE  Sound(t, OnAck(t, m)) /\ OnAck(t, m).t.model = t.model
<1> DEFINE holds   == IF m.replayed THEN t.holds ELSE t.holds \cup {m.e}
           version == IF m.replayed THEN t.version ELSE m.version
           taken   == Persist([t EXCEPT !.outbox = Without(t.outbox, {m.e}), !.holds = holds, !.version = version])
           asked   == Resync(taken, TRUE)
<1>1. OnAck(t, m) = IF m.replayed /\ m.e \in Mine(t.outbox) THEN Then(asked, Drain(asked.t, TRUE))
                    ELSE Drain(taken, TRUE)
  BY Zenon DEF OnAck
<1>2. holds \in SUBSET Edit /\ version \in Nat
  BY DownFields, TabFields
<1> HIDE DEF holds, version
<1>3. taken \in Tab /\ WellTab(taken) /\ taken.model = t.model /\ (Virgin(taken) => Virgin(t))
  BY <1>2, TakenSound
<1> HIDE DEF taken
<1>4. Sound(taken, asked) /\ asked.t.model = t.model
  BY <1>3, ResyncSound
<1> HIDE DEF asked
<1>5. asked.t \in Tab /\ WellTab(asked.t)
  BY <1>4 DEF Sound, Result
<1> DEFINE drained == Drain(asked.t, TRUE)
<1>6. Sound(asked.t, drained) /\ drained.t.model = asked.t.model
  BY <1>5, DrainSound
<1>7. Sound(taken, Then(asked, drained)) /\ Then(asked, drained).t = drained.t
  <2> HIDE DEF drained
  <2>1. Sound(taken, Then(asked, drained))
    BY <1>3, <1>4, <1>6, ThenSound
  <2> QED
    BY <2>1 DEF Then
<1>8. Sound(taken, Drain(taken, TRUE)) /\ Drain(taken, TRUE).t.model = t.model
  BY <1>3, DrainSound
<1>9. Sound(taken, OnAck(t, m)) /\ OnAck(t, m).t.model = t.model
  BY <1>1, <1>4, <1>6, <1>7, <1>8
<1> QED
  BY <1>3, <1>9 DEF Sound

LEMMA OnChangeSound ==
    ASSUME NEW t \in Tab, NEW m \in Down, WellTab(t), m.cmd = "change", ~Virgin(t)
    PROVE  Sound(t, OnChange(t, m)) /\ OnChange(t, m).t.model = t.model
<1>1. << >> \in Seq(Up) /\ DOMAIN << >> = {}
  OBVIOUS
<1>2. CASE m.version - 1 < t.version
  <2>1. OnChange(t, m) = [t |-> t, out |-> << >>]
    BY <1>2 DEF OnChange
  <2> QED
    BY <1>1, <2>1 DEF Sound, Result
<1>3. CASE ~(m.version - 1 < t.version) /\ m.version - 1 > t.version
  <2>1. OnChange(t, m) = Resync(t, TRUE)
    BY <1>3 DEF OnChange
  <2> QED
    BY <2>1, ResyncSound
<1>4. CASE ~(m.version - 1 < t.version) /\ ~(m.version - 1 > t.version)
  <2> DEFINE u == [t EXCEPT !.holds = @ \cup {m.e}, !.version = m.version]
  <2>1. OnChange(t, m) = [t |-> u, out |-> << >>]
    BY <1>4 DEF OnChange
  <2>2. m.e \in Edit /\ m.version \in Nat
    BY DownFields
  <2>3. /\ u \in Tab /\ u.outbox = t.outbox /\ u.model = t.model /\ u.diagram = t.diagram /\ u.saved = t.saved
        /\ u.hydrated = t.hydrated /\ u.expect = t.expect
    BY <2>2 DEF Tab
  <2> HIDE DEF u
  <2>4. WellTab(u) /\ (Virgin(u) => Virgin(t))
    BY <2>3 DEF WellTab, Outbox, Saved, Shown, Virgin
  <2> QED
    BY <1>1, <2>1, <2>3, <2>4 DEF Sound, Result
<1> QED
  BY <1>2, <1>3, <1>4

LEMMA OnErrorSound ==
    ASSUME NEW t \in Tab, NEW m, WellTab(t)
    PROVE  Sound(t, OnError(t, m)) /\ OnError(t, m).t.model = t.model
<1>1. CASE m.e \in Mine(t.outbox)
  <2> DEFINE taken == Persist([t EXCEPT !.outbox = Without(t.outbox, {m.e})])
  <2>1. OnError(t, m) = Resync(taken, TRUE)
    BY <1>1, Zenon DEF OnError
  <2>2. taken \in Tab /\ WellTab(taken) /\ taken.model = t.model /\ (Virgin(taken) => Virgin(t))
    <3>1. t.holds \in SUBSET Edit /\ t.version \in Nat
      BY TabFields
    <3> DEFINE full == Persist([t EXCEPT !.outbox = Without(t.outbox, {m.e}), !.holds = t.holds, !.version = t.version])
    <3>2. taken = full
      <4> DEFINE kept == Without(t.outbox, {m.e})
      <4>1. [t EXCEPT !.outbox = kept] = [t EXCEPT !.outbox = kept, !.holds = t.holds, !.version = t.version]
        <5> HIDE DEF kept
        <5> QED
          BY DEF Tab
      <4> QED
        BY <4>1, Zenon
    <3>3. full \in Tab /\ WellTab(full) /\ full.model = t.model /\ (Virgin(full) => Virgin(t))
      BY <3>1, TakenSound
    <3> HIDE DEF taken, full
    <3> QED
      BY <3>2, <3>3
  <2> HIDE DEF taken
  <2>3. Sound(taken, Resync(taken, TRUE)) /\ Resync(taken, TRUE).t.model = t.model
    BY <2>2, ResyncSound
  <2> QED
    BY <2>1, <2>2, <2>3 DEF Sound
<1>2. CASE m.e \notin Mine(t.outbox)
  <2>1. OnError(t, m) = [t |-> t, out |-> << >>] /\ << >> \in Seq(Up) /\ DOMAIN << >> = {}
    BY <1>2 DEF OnError
  <2> QED
    BY <2>1 DEF Sound, Result
<1> QED
  BY <1>1, <1>2

\* Whatever a page may hear, it stays well, and shows what it showed unless it is
\* a snapshot.
LEMMA HeardSound ==
    ASSUME NEW t \in Tab, NEW m \in Down, WellTab(t), WellDown(m),
           m.cmd \in {"ack", "change"} => ~Virgin(t),
           m.cmd = "forked" => t.model = Template
    PROVE  /\ Sound(t, Heard(t, m))
           /\ m.cmd = "snapshot" => /\ ~Virgin(Heard(t, m).t)
                                    /\ \/ Heard(t, m).t.model = m.diagram
                                       \/ Virgin(t) /\ Heard(t, m).t.model = t.model
           /\ m.cmd # "snapshot" => Heard(t, m).t.model = t.model
<1>1. CASE m.cmd = "snapshot"
  <2>1. Heard(t, m) = OnSnapshot(t, m)
    BY <1>1 DEF Heard
  <2> QED
    BY <1>1, <2>1, OnSnapshotSound
<1>2. CASE m.cmd = "sync"
  <2>1. Heard(t, m) = OnSync(t)
    BY <1>2 DEF Heard
  <2> QED
    BY <1>2, <2>1, OnSyncSound
<1>3. CASE m.cmd = "forked"
  <2>1. Heard(t, m) = OnForked(t, m)
    BY <1>3 DEF Heard
  <2> QED
    BY <1>3, <2>1, OnForkedSound
<1>4. CASE m.cmd = "ack"
  <2>1. Heard(t, m) = OnAck(t, m)
    BY <1>4 DEF Heard
  <2> QED
    BY <1>4, <2>1, OnAckSound
<1>5. CASE m.cmd = "change"
  <2>1. Heard(t, m) = OnChange(t, m)
    BY <1>5 DEF Heard
  <2> QED
    BY <1>5, <2>1, OnChangeSound
<1>6. CASE m.cmd = "access"
  <2>1. Heard(t, m) = Resync(t, TRUE)
    BY <1>6 DEF Heard
  <2> QED
    BY <1>6, <2>1, ResyncSound
<1>7. CASE m.cmd = "error"
  <2>1. Heard(t, m) = OnError(t, m)
    BY <1>7 DEF Heard
  <2> QED
    BY <1>7, <2>1, OnErrorSound
<1> QED
  BY <1>1, <1>2, <1>3, <1>4, <1>5, <1>6, <1>7, DownFields

-----------------------------------------------------------------------------
(* Messages on their way                                                    *)

LEMMA JoinAt ==
    ASSUME NEW A, NEW q \in Seq(A), NEW s \in Seq(A)
    PROVE  /\ q \o s \in Seq(A) /\ Len(q \o s) = Len(q) + Len(s)
           /\ \A i \in DOMAIN q : i \in DOMAIN (q \o s) /\ (q \o s)[i] = q[i]
           /\ \A i \in DOMAIN s : Len(q) + i \in DOMAIN (q \o s) /\ (q \o s)[Len(q) + i] = s[i]
           /\ \A i \in DOMAIN (q \o s) : i \in DOMAIN q \/ \E j \in DOMAIN s : i = Len(q) + j
<1> DEFINE both == q \o s
<1>1. both \in Seq(A) /\ Len(both) = Len(q) + Len(s)
      /\ \A i \in 1 .. Len(q) + Len(s) : both[i] = IF i <= Len(q) THEN q[i] ELSE s[i - Len(q)]
  BY ConcatProperties
<1>2. Len(q) \in Nat /\ Len(s) \in Nat /\ DOMAIN q = 1 .. Len(q) /\ DOMAIN s = 1 .. Len(s)
  OBVIOUS
<1> HIDE DEF both
<1>3. DOMAIN both = 1 .. Len(q) + Len(s)
  BY <1>1
<1>4. ASSUME NEW i \in DOMAIN q
      PROVE  i \in DOMAIN both /\ both[i] = q[i]
  <2>1. i \in 1 .. Len(q) + Len(s) /\ i <= Len(q)
    BY <1>2
  <2> QED
    BY <1>1, <1>3, <2>1
<1>5. ASSUME NEW i \in DOMAIN s
      PROVE  Len(q) + i \in DOMAIN both /\ both[Len(q) + i] = s[i]
  <2>1. Len(q) + i \in 1 .. Len(q) + Len(s) /\ ~(Len(q) + i <= Len(q)) /\ (Len(q) + i) - Len(q) = i
    BY <1>2
  <2> QED
    BY <1>1, <1>3, <2>1
<1>6. ASSUME NEW i \in DOMAIN both, i \notin DOMAIN q
      PROVE  \E j \in DOMAIN s : i = Len(q) + j
  <2>1. i \in 1 .. Len(q) + Len(s) /\ ~(i <= Len(q))
    BY <1>2, <1>3, <1>6
  <2>2. i - Len(q) \in 1 .. Len(s) /\ i = Len(q) + (i - Len(q))
    BY <1>2, <2>1, PastFirst
  <2> QED
    BY <1>2, <2>2
<1> QED
  BY <1>1, <1>4, <1>5, <1>6 DEF both

LEMMA TailAt ==
    ASSUME NEW A, NEW q \in Seq(A), q # << >>
    PROVE  /\ Tail(q) \in Seq(A) /\ Len(Tail(q)) = Len(q) - 1 /\ Len(q) \in Nat /\ 1 \in DOMAIN q /\ Head(q) = q[1]
           /\ \A i \in DOMAIN Tail(q) : i \in Nat \ {0} /\ i + 1 \in DOMAIN q /\ Tail(q)[i] = q[i + 1]
           /\ \A i \in DOMAIN q : i = 1 \/ i - 1 \in DOMAIN Tail(q)
<1>1. Tail(q) \in Seq(A) /\ Len(Tail(q)) = Len(q) - 1 /\ \A i \in 1 .. Len(q) - 1 : Tail(q)[i] = q[i + 1]
  OBVIOUS
<1>2. Len(q) \in Nat /\ Len(q) # 0 /\ DOMAIN q = 1 .. Len(q) /\ Head(q) = q[1]
  OBVIOUS
<1>3. DOMAIN Tail(q) = 1 .. Len(q) - 1
  BY <1>1, <1>2
<1> QED
  BY <1>1, <1>2, <1>3

\* The page hears one message, and shows what it said if it said so.
LEMMA OnTail ==
    ASSUME NEW q \in Seq(Down), q # << >>, NEW d, NEW model, NEW later, NEW i \in 1 .. Len(q),
           On(d, model, q, i + 1),
           Snap(q, 1) => later = q[1].diagram, ~Snap(q, 1) => later = model
    PROVE  On(d, later, Tail(q), i)
<1>1. Len(q) \in Nat /\ \A k \in 1 .. Len(q) - 1 : Tail(q)[k] = q[k + 1]
  OBVIOUS
<1>2. PICK j \in 0 .. i : /\ IF j = 0 THEN model = d ELSE Snap(q, j) /\ q[j].diagram = d
                          /\ \A k \in j + 1 .. i : ~Snap(q, k)
  BY DEF On
<1> DEFINE tail == Tail(q)
<1> HIDE DEF tail
<1>3. \A k \in 1 .. i - 1 : tail[k] = q[k + 1]
  BY <1>1 DEF tail
<1>4. CASE j \in {0, 1}
  <2>1. later = d
    <3>1. CASE j = 0
      <4>1. 1 \in j + 1 .. i
        BY <3>1
      <4> QED
        BY <1>2, <3>1, <4>1
    <3>2. CASE j = 1
      BY <1>2, <3>2
    <3> QED
      BY <1>4, <3>1, <3>2
  <2>2. ASSUME NEW k \in 0 + 1 .. i - 1
        PROVE  ~Snap(tail, k)
    <3>1. k + 1 \in j + 1 .. i /\ k \in 1 .. i - 1
      BY <1>4
    <3> QED
      BY <1>2, <1>3, <3>1 DEF Snap
  <2>3. 0 \in 0 .. i - 1
    OBVIOUS
  <2> QED
    BY <2>1, <2>2, <2>3 DEF On, tail
<1>5. CASE j \notin {0, 1}
  <2>1. j - 1 \in 0 .. i - 1 /\ j - 1 \in 1 .. i - 1 /\ j - 1 # 0 /\ (j - 1) + 1 = j
    BY <1>5
  <2>2. Snap(tail, j - 1) /\ tail[j - 1].diagram = d
    BY <1>2, <1>3, <1>5, <2>1 DEF Snap
  <2>3. ASSUME NEW k \in (j - 1) + 1 .. i - 1
        PROVE  ~Snap(tail, k)
    <3>1. k + 1 \in j + 1 .. i /\ k \in 1 .. i - 1
      BY <1>5
    <3> QED
      BY <1>2, <1>3, <3>1 DEF Snap
  <2> QED
    BY <2>1, <2>2, <2>3 DEF On, tail
<1> QED
  BY <1>4, <1>5

\* What comes after changes nothing for what came before.
LEMMA OnLonger ==
    ASSUME NEW q \in Seq(Down), NEW msgs \in Seq(Down), NEW d, NEW model, NEW i \in 1 .. Len(q) + 1, On(d, model, q, i)
    PROVE  On(d, model, q \o msgs, i)
<1> DEFINE both == q \o msgs
<1>1. \A k \in 1 .. i - 1 : both[k] = q[k]
  <2>1. \A k \in 1 .. i - 1 : k \in DOMAIN q
    OBVIOUS
  <2> QED
    BY <2>1, JoinAt
<1>2. PICK j \in 0 .. i - 1 : /\ IF j = 0 THEN model = d ELSE Snap(q, j) /\ q[j].diagram = d
                              /\ \A k \in j + 1 .. i - 1 : ~Snap(q, k)
  BY DEF On
<1> HIDE DEF both
<1>3. (j # 0 => j \in 1 .. i - 1) /\ \A k \in j + 1 .. i - 1 : k \in 1 .. i - 1
  OBVIOUS
<1> QED
  BY <1>1, <1>2, <1>3 DEF On, Snap, both

\* Messages that are no snapshots leave the page where it was going.
LEMMA OnCalm ==
    ASSUME NEW q \in Seq(Down), NEW msgs \in Seq(Down), NEW d, NEW model, On(d, model, q, Len(q) + 1),
           \A i \in DOMAIN msgs : ~Snap(msgs, i)
    PROVE  On(d, model, q \o msgs, Len(q \o msgs) + 1)
<1> DEFINE both == q \o msgs
<1>1. /\ Len(both) = Len(q) + Len(msgs)
      /\ \A k \in DOMAIN q : both[k] = q[k]
      /\ \A k \in DOMAIN msgs : both[Len(q) + k] = msgs[k]
  BY JoinAt
<1>2. PICK j \in 0 .. Len(q) : /\ IF j = 0 THEN model = d ELSE Snap(q, j) /\ q[j].diagram = d
                               /\ \A k \in j + 1 .. Len(q) : ~Snap(q, k)
  <2>1. (Len(q) + 1) - 1 = Len(q)
    OBVIOUS
  <2> QED
    BY <2>1 DEF On
<1>3. Len(q) \in Nat /\ Len(msgs) \in Nat /\ DOMAIN q = 1 .. Len(q) /\ DOMAIN msgs = 1 .. Len(msgs)
  OBVIOUS
<1> HIDE DEF both
<1>4. ASSUME NEW k \in j + 1 .. Len(both)
      PROVE  ~Snap(both, k)
  <2>1. CASE k <= Len(q)
    <3>1. k \in j + 1 .. Len(q) /\ k \in DOMAIN q
      BY <1>3, <2>1
    <3> QED
      BY <1>1, <1>2, <3>1 DEF Snap
  <2>2. CASE ~(k <= Len(q))
    <3>1. k \in 1 .. Len(q) + Len(msgs)
      BY <1>1, <1>3
    <3>2. k - Len(q) \in DOMAIN msgs /\ k = Len(q) + (k - Len(q))
      BY <1>3, <2>2, <3>1, PastFirst
    <3> QED
      BY <1>1, <3>2 DEF Snap
  <2> QED
    BY <2>1, <2>2
<1>5. (Len(both) + 1) - 1 = Len(both) /\ j \in 0 .. Len(both) /\ (j # 0 => j \in DOMAIN q)
  BY <1>1, <1>3
<1> QED
  BY <1>1, <1>2, <1>4, <1>5 DEF On, Snap, both

\* A snapshot, with no other after it, takes the page to its diagram.
LEMMA OnTaken ==
    ASSUME NEW q \in Seq(Down), NEW msgs \in Seq(Down), NEW model,
           1 \in DOMAIN msgs, Snap(msgs, 1), \A i \in DOMAIN msgs \ {1} : ~Snap(msgs, i)
    PROVE  On(msgs[1].diagram, model, q \o msgs, Len(q \o msgs) + 1)
<1> DEFINE both == q \o msgs
           j    == Len(q) + 1
<1>1. /\ Len(both) = Len(q) + Len(msgs)
      /\ \A k \in DOMAIN msgs : both[Len(q) + k] = msgs[k]
  BY JoinAt
<1>2. Len(q) \in Nat /\ Len(msgs) \in Nat /\ DOMAIN msgs = 1 .. Len(msgs)
  OBVIOUS
<1> HIDE DEF both
<1>3. Snap(both, j) /\ both[j].diagram = msgs[1].diagram
  BY <1>1 DEF Snap
<1>4. ASSUME NEW k \in j + 1 .. Len(both)
      PROVE  ~Snap(both, k)
  <2>1. k \in 1 .. Len(q) + Len(msgs) /\ ~(k <= Len(q)) /\ k - Len(q) # 1
    BY <1>1, <1>2
  <2>2. k - Len(q) \in DOMAIN msgs /\ k = Len(q) + (k - Len(q))
    BY <1>2, <2>1, PastFirst
  <2> QED
    BY <1>1, <2>1, <2>2 DEF Snap
<1>5. (Len(both) + 1) - 1 = Len(both) /\ j \in 0 .. Len(both) /\ j # 0
  BY <1>1, <1>2
<1> QED
  BY <1>3, <1>4, <1>5 DEF On, both

\* What was well stays well as edits are made and diagrams forked.
Grown ==
    /\ edits \in Nat /\ edits' \in Nat /\ edits <= edits'
    /\ \A e \in 1..edits : made'[e] = made[e]
    /\ forkOf \subseteq forkOf'

LEMMA WellGrows ==
    ASSUME Grown
    PROVE  /\ \A e, d : Fits(e, d) => Fits(e, d)'
           /\ \A e : Unbound(e) => Unbound(e)'
           /\ \A t : WellTab(t) => WellTab(t)'
           /\ \A m : WellUp(m) => WellUp(m)'
           /\ \A m : WellDown(m) => WellDown(m)'
<1>1. \A e \in 1 .. edits : e \in 1 .. edits'
  BY DEF Grown
<1>2. \A e, d : Fits(e, d) => Fits(e, d)'
  BY <1>1 DEF Grown, Fits
<1>3. \A e : Unbound(e) => Unbound(e)'
  BY <1>1 DEF Grown, Unbound
<1>4. \A t : WellTab(t) => WellTab(t)'
  <2> SUFFICES ASSUME NEW t, WellTab(t) PROVE WellTab(t)'
    OBVIOUS
  <2>1. Outbox(t)' /\ Saved(t)'
    BY <1>2 DEF WellTab, Outbox, Saved
  <2>2. Shown(t)'
    BY <1>3 DEF WellTab, Shown, Virgin, Grown
  <2> QED
    BY <2>1, <2>2 DEF WellTab
<1>5. \A m : WellUp(m) => WellUp(m)'
  BY <1>2, <1>3 DEF WellUp
<1>6. \A m : WellDown(m) => WellDown(m)'
  BY DEF WellDown, Grown
<1> QED
  BY <1>2, <1>3, <1>4, <1>5, <1>6

-----------------------------------------------------------------------------
(* What a page does keeps the invariant                                     *)

LEMMA SendsIs ==
    ASSUME TypeOK, NEW p \in Page, NEW r, r \in Result, Sends(p, r)
    PROVE  /\ tab' \in [Page -> Tab] /\ up' \in [Page -> Seq(Up)]
           /\ tab'[p] = r.t /\ up'[p] = up[p] \o r.out
           /\ \A q \in Page \ {p} : tab'[q] = tab[q] /\ up'[q] = up[q]
<1>1. r.t \in Tab /\ r.out \in Seq(Up) /\ up[p] \in Seq(Up)
  BY DEF Result, TypeOK
<1>2. up[p] \o r.out \in Seq(Up)
  BY <1>1, JoinAt
<1> QED
  BY <1>1, <1>2 DEF Sends, TypeOK

\* What it sends, and what it is then.
LEMMA SpeechWell ==
    ASSUME Inv, Grown, NEW p \in Page, NEW t, NEW r, t = tab[p], Sound(t, r)', Sends(p, r)
    PROVE  /\ Tabs'
           /\ Asked'
           /\ \A q \in Page : tab'[q].model = None =>
                 tab[q].model = None /\ \A i \in DOMAIN up'[q] : up'[q][i].cmd # "commit"
           /\ \A q \in Page : Virgin(tab'[q]) => Virgin(tab[q])
           /\ \A q \in Page : \A i \in DOMAIN up'[q] : up'[q][i].cmd = "resume" =>
                 i \in DOMAIN up[q] /\ up'[q][i] = up[q][i]
<1>1. r \in Result /\ WellTab(r.t)' /\ (Virgin(r.t) => Virgin(t)) /\ (r.t.model = None => t.model = None)
      /\ \A i \in DOMAIN r.out : /\ WellUp(r.out[i])' /\ r.out[i].cmd # "resume"
                                 /\ r.out[i].cmd = "commit" => r.t.model # None
  BY DEF Sound, Virgin
<1>2. r.t \in Tab /\ r.out \in Seq(Up) /\ up[p] \in Seq(Up) /\ TypeOK
  BY <1>1 DEF Result, Inv, TypeOK
<1>3. /\ tab'[p] = r.t /\ up'[p] = up[p] \o r.out
      /\ \A q \in Page \ {p} : tab'[q] = tab[q] /\ up'[q] = up[q]
  BY <1>1, <1>2, SendsIs
<1>4. \A i \in DOMAIN up'[p] : \/ i \in DOMAIN up[p] /\ up'[p][i] = up[p][i]
                               \/ \E j \in DOMAIN r.out : up'[p][i] = r.out[j]
  <2> DEFINE first == up[p]
             last  == r.out
  <2>1. first \in Seq(Up) /\ last \in Seq(Up) /\ up'[p] = first \o last
    BY <1>2, <1>3
  <2> HIDE DEF first, last
  <2>2. \A i \in DOMAIN (first \o last) : \/ i \in DOMAIN first /\ (first \o last)[i] = first[i]
                                         \/ \E j \in DOMAIN last : (first \o last)[i] = last[j]
    BY <2>1, JoinAt
  <2> QED
    BY <2>1, <2>2 DEF first, last
<1>5. Tabs'
  <2> SUFFICES ASSUME NEW q \in Page PROVE WellTab(tab[q])'
    BY DEF Tabs
  <2>1. CASE q = p
    BY <1>1, <1>3, <2>1 DEF WellTab, Outbox, Saved, Shown, Virgin
  <2>2. CASE q # p
    <3>1. WellTab(tab[q]) /\ tab'[q] = tab[q]
      BY <1>3, <2>2 DEF Inv, Tabs
    <3> DEFINE u == tab[q]
    <3>2. PICK v : v = u
      OBVIOUS
    <3>3. WellTab(v)'
      BY <3>1, <3>2, WellGrows
    <3>4. tab'[q] = v
      BY <3>1, <3>2
    <3> QED
      BY <3>3, <3>4 DEF WellTab, Outbox, Saved, Shown, Virgin
  <2> QED
    BY <2>1, <2>2
<1>6. Asked'
  <2> SUFFICES ASSUME NEW q \in Page, NEW i \in DOMAIN up'[q]
               PROVE  WellUp(up[q][i])'
    BY DEF Asked
  <2>1. PICK v : v = up'[q][i]
    OBVIOUS
  <2>2. WellUp(v)'
    <3>1. CASE \E j \in DOMAIN up[q] : v = up[q][j]
      <4>1. WellUp(v)
        BY <3>1 DEF Inv, Wire, Messages, Asked
      <4> QED
        BY <4>1, WellGrows
    <3>2. CASE q = p /\ \E j \in DOMAIN r.out : v = r.out[j]
      BY <1>1, <3>2
    <3> QED
      BY <1>3, <1>4, <2>1, <3>1, <3>2
  <2> QED
    BY <2>1, <2>2 DEF WellUp
<1>7. ASSUME NEW q \in Page, tab'[q].model = None
      PROVE  tab[q].model = None /\ \A i \in DOMAIN up'[q] : up'[q][i].cmd # "commit"
  <2>1. tab[q].model = None
    BY <1>1, <1>3, <1>7
  <2>2. \A i \in DOMAIN up[q] : up[q][i].cmd # "commit"
    BY <2>1 DEF Inv, Wire, Unnamed
  <2>3. CASE q = p
    <3>1. \A j \in DOMAIN r.out : r.out[j].cmd # "commit"
      BY <1>1, <1>3, <1>7, <2>3
    <3> QED
      BY <1>4, <2>1, <2>2, <2>3, <3>1
  <2> QED
    BY <1>3, <2>1, <2>2, <2>3
<1>8. \A q \in Page : Virgin(tab'[q]) => Virgin(tab[q])
  BY <1>1, <1>3
<1>9. ASSUME NEW q \in Page, NEW i \in DOMAIN up'[q], up'[q][i].cmd = "resume"
      PROVE  i \in DOMAIN up[q] /\ up'[q][i] = up[q][i]
  BY <1>1, <1>3, <1>4, <1>9
<1> QED
  BY <1>5, <1>6, <1>7, <1>8, <1>9

\* A page that speaks without having heard.
LEMMA SpeechKeeps ==
    ASSUME Inv, Grown, NEW p \in Page, NEW t, NEW r, t = tab[p], Sound(t, r)', Sends(p, r),
           UNCHANGED <<down, seat, open>>, r.t.model = t.model, open[p] \/ r.out = << >>
    PROVE  (Tabs /\ Wire)'
<1>1. /\ Tabs'
      /\ Asked'
      /\ \A q \in Page : tab'[q].model = None =>
            tab[q].model = None /\ \A i \in DOMAIN up'[q] : up'[q][i].cmd # "commit"
      /\ \A q \in Page : Virgin(tab'[q]) => Virgin(tab[q])
      /\ \A q \in Page : \A i \in DOMAIN up'[q] : up'[q][i].cmd = "resume" =>
            i \in DOMAIN up[q] /\ up'[q][i] = up[q][i]
  BY SpeechWell
<1>2. TypeOK /\ r \in Result
  BY DEF Inv, Sound
<1>3. \A q \in Page : tab'[q].model = tab[q].model
  BY <1>2, SendsIs
<1>4. Messages'
  <2>1. Answered'
    <3> SUFFICES ASSUME NEW q \in Page, NEW i \in DOMAIN down'[q]
                 PROVE  WellDown(down[q][i])'
      BY DEF Answered
    <3>1. PICK v : v = down[q][i]
      OBVIOUS
    <3>2. WellDown(v)
      BY <3>1 DEF Inv, Wire, Messages, Answered
    <3>3. WellDown(v)'
      BY <3>2, WellGrows
    <3> QED
      BY <3>1, <3>3 DEF WellDown
  <2> QED
    BY <1>1, <2>1 DEF Messages
<1>5. Forked' /\ OnTemplate'
  BY <1>3 DEF Inv, Wire, Forked, OnTemplate, On, Snap
<1>6. Unnamed'
  BY <1>1 DEF Inv, Wire, Unnamed
<1>7. First'
  BY <1>1 DEF Inv, Wire, First, Snap, Virgin
<1>8. Resuming'
  <2> SUFFICES ASSUME NEW q \in Page, NEW i \in DOMAIN up'[q], up'[q][i].cmd = "resume"
               PROVE  /\ i = 1 /\ seat'[q] = None /\ up'[q][i].diagram = tab'[q].model
                      /\ ~Virgin(tab'[q])
                      /\ \A j \in DOMAIN down'[q] : down'[q][j].cmd \in {"access", "error"}
    BY DEF Resuming, Virgin
  <2>1. i \in DOMAIN up[q] /\ up'[q][i] = up[q][i]
    BY <1>1
  <2> QED
    BY <1>1, <1>3, <2>1 DEF Inv, Wire, Resuming
<1>9. Closed'
  <2>1. \A q \in Page : ~open[q] => up'[q] = <<>>
    <3>1. ASSUME NEW q \in Page, ~open[q] PROVE up'[q] = <<>>
      <4>1. up[q] = << >>
        BY <3>1 DEF Inv, Wire, Closed
      <4>2. << >> \o << >> = << >>
        OBVIOUS
      <4> QED
        BY <1>2, <3>1, <4>1, <4>2, SendsIs
    <3> QED
      BY <3>1
  <2> QED
    BY <2>1 DEF Inv, Wire, Closed
<1> QED
  BY <1>1, <1>4, <1>5, <1>6, <1>7, <1>8, <1>9 DEF Wire

\* A page that has heard a message.
LEMMA HearingKeeps ==
    ASSUME Inv, Grown, NEW p \in Page, NEW t, NEW r, NEW m, t = tab[p], Sound(t, r)', Sends(p, r),
           down[p] # << >>, m = down[p][1], down' = [down EXCEPT ![p] = Tail(@)], UNCHANGED <<seat, open>>,
           m.cmd = "snapshot" => ~Virgin(r.t) /\ (r.t.model = m.diagram \/ (Virgin(t) /\ r.t.model = t.model)),
           m.cmd # "snapshot" => r.t.model = t.model
    PROVE  (Tabs /\ Wire)'
<1>1. /\ Tabs'
      /\ Asked'
      /\ \A q \in Page : tab'[q].model = None =>
            tab[q].model = None /\ \A i \in DOMAIN up'[q] : up'[q][i].cmd # "commit"
      /\ \A q \in Page : Virgin(tab'[q]) => Virgin(tab[q])
      /\ \A q \in Page : \A i \in DOMAIN up'[q] : up'[q][i].cmd = "resume" =>
            i \in DOMAIN up[q] /\ up'[q][i] = up[q][i]
  BY SpeechWell
<1>2. TypeOK /\ r \in Result /\ down \in [Page -> Seq(Down)]
  BY DEF Inv, Sound, TypeOK
<1>3. /\ tab'[p] = r.t
      /\ \A q \in Page \ {p} : tab'[q] = tab[q] /\ up'[q] = up[q] /\ down'[q] = down[q]
      /\ down'[p] = Tail(down[p])
  BY <1>2, SendsIs
<1> DEFINE q0 == down[p]
<1>4. /\ q0 \in Seq(Down) /\ Tail(q0) \in Seq(Down) /\ Len(Tail(q0)) = Len(q0) - 1 /\ Len(q0) \in Nat /\ 1 \in DOMAIN q0
      /\ \A i \in DOMAIN Tail(q0) : i \in Nat \ {0} /\ i + 1 \in DOMAIN q0 /\ Tail(q0)[i] = q0[i + 1]
      /\ \A i \in DOMAIN q0 : i = 1 \/ i - 1 \in DOMAIN Tail(q0)
  BY <1>2, TailAt
<1>5. \A q \in Page : \A i \in DOMAIN down'[q] : \E j \in DOMAIN down[q] : down'[q][i] = down[q][j]
  BY <1>3, <1>4
<1>6. Snap(q0, 1) <=> m.cmd = "snapshot"
  BY DEF Snap
<1>7. Virgin(t) => t.model = None
  BY DEF Inv, Tabs, WellTab, Shown
<1>8. Messages'
  <2>1. Answered'
    <3> SUFFICES ASSUME NEW q \in Page, NEW i \in DOMAIN down'[q]
                 PROVE  WellDown(down[q][i])'
      BY DEF Answered
    <3>1. PICK v : v = down'[q][i]
      OBVIOUS
    <3>2. WellDown(v)
      BY <1>5, <3>1 DEF Inv, Wire, Messages, Answered
    <3>3. WellDown(v)'
      BY <3>2, WellGrows
    <3> QED
      BY <3>1, <3>3 DEF WellDown
  <2> QED
    BY <1>1, <2>1 DEF Messages
<1>9. Unnamed'
  BY <1>1, <1>5 DEF Inv, Wire, Unnamed
<1>10. Forked'
  <2> SUFFICES ASSUME NEW q \in Page, NEW i \in DOMAIN down'[q], down'[q][i].cmd = "forked"
               PROVE  On(Template, tab'[q].model, down'[q], i)
    BY DEF Forked, On, Snap
  <2>1. CASE q # p
    BY <1>3, <2>1 DEF Inv, Wire, Forked
  <2>2. CASE q = p
    <3>1. i \in Nat \ {0} /\ i + 1 \in DOMAIN q0 /\ q0[i + 1].cmd = "forked" /\ i \in 1 .. Len(q0)
      <4>1. i \in DOMAIN Tail(q0) /\ Tail(q0)[i].cmd = "forked"
        BY <1>3, <2>2
      <4>2. i \in Nat \ {0} /\ i + 1 \in DOMAIN q0 /\ q0[i + 1].cmd = "forked"
        BY <1>4, <4>1
      <4> HIDE DEF q0
      <4>3. i \in 1 .. Len(q0)
        BY <1>4, <4>2
      <4> QED
        BY <4>2, <4>3
    <3>2. On(Template, t.model, q0, i + 1)
      BY <3>1 DEF Inv, Wire, Forked
    <3>3. ~Virgin(t)
      BY <1>7, <3>1 DEF Inv, Wire, Unnamed
    <3>4. (Snap(q0, 1) => r.t.model = q0[1].diagram) /\ (~Snap(q0, 1) => r.t.model = t.model)
      BY <1>6, <3>3
    <3> HIDE DEF q0
    <3>5. On(Template, r.t.model, Tail(q0), i)
      BY <1>4, <3>1, <3>2, <3>4, OnTail
    <3> QED
      BY <1>3, <2>2, <3>5 DEF q0
  <2> QED
    BY <2>1, <2>2
<1>11. OnTemplate'
  <2> SUFFICES ASSUME NEW q \in Page, seat'[q] = Template
               PROVE  \/ On(Template, tab'[q].model, down'[q], Len(down'[q]) + 1)
                      \/ On(None, tab'[q].model, down'[q], Len(down'[q]) + 1)
    BY DEF OnTemplate, On, Snap
  <2>1. CASE q # p
    BY <1>3, <2>1 DEF Inv, Wire, OnTemplate
  <2>2. CASE q = p
    <3>1. PICK d \in {Template, None} : On(d, t.model, q0, Len(q0) + 1)
      BY <2>2 DEF Inv, Wire, OnTemplate
    <3>2. Len(Tail(q0)) + 1 = Len(q0) /\ Len(q0) \in 1 .. Len(q0)
      BY <1>4
    <3>3. CASE (Snap(q0, 1) => r.t.model = q0[1].diagram) /\ (~Snap(q0, 1) => r.t.model = t.model)
      <4> HIDE DEF q0
      <4>1. On(d, r.t.model, Tail(q0), Len(q0))
        BY <1>4, <3>1, <3>2, <3>3, OnTail
      <4> QED
        BY <1>3, <2>2, <3>2, <4>1 DEF q0
    <3>4. CASE Snap(q0, 1) /\ r.t.model = None
      <4> DEFINE later == q0[1].diagram
      <4> HIDE DEF q0
      <4>1. On(d, later, Tail(q0), Len(q0))
        BY <1>4, <3>1, <3>2, <3>4, OnTail
      <4>2. On(d, None, Tail(q0), Len(q0)) \/ On(None, None, Tail(q0), Len(q0))
        <5> HIDE DEF later
        <5> QED
          BY <4>1 DEF On
      <4> QED
        BY <1>3, <2>2, <3>2, <3>4, <4>2 DEF q0
    <3> QED
      BY <1>6, <1>7, <3>3, <3>4
  <2> QED
    BY <2>1, <2>2
<1>12. First'
  <2> SUFFICES ASSUME NEW q \in Page, Virgin(tab'[q])
               PROVE  /\ seat[q] # None => \E j \in DOMAIN down'[q] : Snap(down'[q], j)
                      /\ \A i \in DOMAIN down'[q] : down'[q][i].cmd \in {"ack", "change"}
                            => \E j \in 1 .. i - 1 : Snap(down'[q], j)
    BY DEF First, Snap, Virgin
  <2>1. /\ seat[q] # None => \E j \in DOMAIN down[q] : Snap(down[q], j)
        /\ \A i \in DOMAIN down[q] : down[q][i].cmd \in {"ack", "change"}
                                        => \E j \in 1 .. i - 1 : Snap(down[q], j)
    BY <1>1 DEF Inv, Wire, First
  <2>2. CASE q # p
    BY <1>3, <2>1, <2>2
  <2>3. CASE q = p
    <3>1. ~Snap(q0, 1)
      BY <1>3, <1>6, <2>3
    <3>2. seat[q] # None => \E j \in DOMAIN Tail(q0) : Snap(Tail(q0), j)
      <4> SUFFICES ASSUME seat[q] # None PROVE \E j \in DOMAIN Tail(q0) : Snap(Tail(q0), j)
        OBVIOUS
      <4>1. PICK j \in DOMAIN q0 : Snap(q0, j)
        BY <2>1, <2>3
      <4>2. j \in Nat /\ j # 1 /\ j - 1 \in DOMAIN Tail(q0) /\ (j - 1) + 1 = j
        BY <1>4, <3>1, <4>1
      <4> QED
        BY <1>4, <4>1, <4>2 DEF Snap
    <3>3. ASSUME NEW i \in DOMAIN Tail(q0), Tail(q0)[i].cmd \in {"ack", "change"}
          PROVE  \E j \in 1 .. i - 1 : Snap(Tail(q0), j)
      <4>1. i \in Nat \ {0} /\ i + 1 \in DOMAIN q0 /\ q0[i + 1].cmd \in {"ack", "change"} /\ (i + 1) - 1 = i
        BY <1>4, <3>3
      <4>2. PICK j \in 1 .. i : Snap(q0, j)
        BY <2>1, <2>3, <4>1
      <4>3. j - 1 \in 1 .. i - 1 /\ (j - 1) + 1 = j /\ j - 1 \in DOMAIN Tail(q0)
        BY <1>4, <3>1, <4>1, <4>2
      <4> QED
        BY <1>4, <4>2, <4>3 DEF Snap
    <3> QED
      BY <1>3, <2>3, <3>2, <3>3
  <2> QED
    BY <2>2, <2>3
<1>13. Resuming'
  <2> SUFFICES ASSUME NEW q \in Page, NEW i \in DOMAIN up'[q], up'[q][i].cmd = "resume"
               PROVE  /\ i = 1 /\ seat'[q] = None /\ up'[q][i].diagram = tab'[q].model
                      /\ ~Virgin(tab'[q])
                      /\ \A j \in DOMAIN down'[q] : down'[q][j].cmd \in {"access", "error"}
    BY DEF Resuming, Virgin
  <2>1. i \in DOMAIN up[q] /\ up'[q][i] = up[q][i]
    BY <1>1
  <2>2. /\ i = 1 /\ seat[q] = None /\ up[q][i].diagram = tab[q].model /\ ~Virgin(tab[q])
        /\ \A j \in DOMAIN down[q] : down[q][j].cmd \in {"access", "error"}
    BY <2>1 DEF Inv, Wire, Resuming
  <2>3. tab'[q].model = tab[q].model
    BY <1>3, <1>4, <2>2
  <2> QED
    BY <1>1, <1>5, <2>1, <2>2, <2>3
<1>14. Closed'
  <2>1. open[p]
    BY DEF Inv, Wire, Closed
  <2> QED
    BY <1>3, <2>1 DEF Inv, Wire, Closed
<1> QED
  BY <1>1, <1>8, <1>9, <1>10, <1>11, <1>12, <1>13, <1>14 DEF Wire

-----------------------------------------------------------------------------
(* What the server sends keeps the invariant                                *)

\* A session that is left where it is, or on none.
Left(q, msgs) ==
    /\ seat'[q] \in {seat[q], None}
    /\ \A i \in DOMAIN msgs : /\ msgs[i].cmd \notin {"snapshot", "forked"}
                              /\ msgs[i].cmd \in {"ack", "change"} => seat[q] # None
\* One that is taken to a diagram, which its page is shown.
Taken(q, msgs) ==
    /\ 1 \in DOMAIN msgs /\ msgs[1].cmd = "snapshot" /\ msgs[1].diagram = seat'[q]
    /\ \A i \in DOMAIN msgs : i = 1 \/ msgs[i].cmd = "access"
\* One that has forked the template.
Forking(q, msgs) ==
    /\ seat[q] = Template /\ tab[q].model # None /\ seat'[q] # Template
    /\ \A i \in DOMAIN msgs : \/ msgs[i].cmd = "ack"
                              \/ i = 1 /\ msgs[i].cmd = "forked" /\ msgs[i].diagram \in forkOf'
\* One whose page is in step with where it resumes.
InTune(q, msgs) ==
    /\ ~Virgin(tab[q]) /\ seat'[q] = tab[q].model
    /\ \A i \in DOMAIN msgs : msgs[i].cmd = "sync"
    /\ \A j \in DOMAIN down[q] : down[q][j].cmd \in {"access", "error"}

Told(q, msgs) ==
    /\ msgs \in Seq(Down) /\ down'[q] = down[q] \o msgs
    /\ Left(q, msgs) \/ Taken(q, msgs) \/ Forking(q, msgs) \/ InTune(q, msgs)
    /\ \/ up[q] # << >> /\ up'[q] = Tail(up[q])
       \/ /\ up'[q] = up[q]
          /\ seat[q] = None => /\ seat'[q] = None
                               /\ \A i \in DOMAIN msgs : msgs[i].cmd = "access"
                               /\ ~open[q] => msgs = << >>

LEMMA ToldKeeps ==
    ASSUME Inv, Grown, UNCHANGED <<tab, open>>, \A q \in Page : \E msgs : Told(q, msgs)
    PROVE  (Tabs /\ Wire)'
<1>1. /\ down \in [Page -> Seq(Down)] /\ up \in [Page -> Seq(Up)]
  BY DEF Inv, TypeOK
<1>2. \A q \in Page : \A i \in DOMAIN up'[q] : \E j \in DOMAIN up[q] :
          up'[q][i] = up[q][j] /\ (j = i \/ j # 1)
  <2> SUFFICES ASSUME NEW q \in Page, NEW i \in DOMAIN up'[q]
               PROVE  \E j \in DOMAIN up[q] : up'[q][i] = up[q][j] /\ (j = i \/ j # 1)
    OBVIOUS
  <2>1. up'[q] = up[q] \/ (up[q] # << >> /\ up'[q] = Tail(up[q]))
    BY DEF Told
  <2>2. CASE up[q] # << >> /\ up'[q] = Tail(up[q])
    <3>1. up[q] \in Seq(Up)
      BY <1>1
    <3>2. i \in Nat \ {0} /\ i + 1 \in DOMAIN up[q] /\ Tail(up[q])[i] = up[q][i + 1]
      BY <2>2, <3>1, TailAt
    <3> QED
      BY <2>2, <3>2
  <2> QED
    BY <2>1, <2>2
<1>3. Tabs'
  <2> SUFFICES ASSUME NEW q \in Page PROVE WellTab(tab[q])'
    BY DEF Tabs
  <2>1. PICK v : v = tab[q]
    OBVIOUS
  <2>2. WellTab(v)
    BY <2>1 DEF Inv, Tabs
  <2>3. WellTab(v)'
    BY <2>2, WellGrows
  <2> QED
    BY <2>1, <2>3 DEF WellTab, Outbox, Saved, Shown, Virgin
<1>4. Asked'
  <2> SUFFICES ASSUME NEW q \in Page, NEW i \in DOMAIN up'[q]
               PROVE  WellUp(up[q][i])'
    BY DEF Asked
  <2>1. PICK v : v = up'[q][i]
    OBVIOUS
  <2>2. WellUp(v)
    BY <1>2, <2>1 DEF Inv, Wire, Messages, Asked
  <2>3. WellUp(v)'
    BY <2>2, WellGrows
  <2> QED
    BY <2>1, <2>3 DEF WellUp
\* What each page has been sent, and what it had still to hear.
<1>5. ASSUME NEW q \in Page, NEW msgs, Told(q, msgs)
      PROVE  /\ down[q] \in Seq(Down) /\ msgs \in Seq(Down) /\ down'[q] = down[q] \o msgs
             /\ Len(down[q]) \in Nat /\ DOMAIN down[q] = 1 .. Len(down[q]) /\ DOMAIN msgs = 1 .. Len(msgs)
             /\ \A i \in DOMAIN down[q] : i \in DOMAIN down'[q] /\ down'[q][i] = down[q][i]
             /\ \A i \in DOMAIN msgs : Len(down[q]) + i \in DOMAIN down'[q] /\ down'[q][Len(down[q]) + i] = msgs[i]
             /\ \A i \in DOMAIN down'[q] : i \in DOMAIN down[q] \/ \E j \in DOMAIN msgs : i = Len(down[q]) + j
  <2> DEFINE first == down[q]
  <2>1. first \in Seq(Down) /\ msgs \in Seq(Down) /\ down'[q] = first \o msgs
    BY <1>1, <1>5 DEF Told
  <2> HIDE DEF first
  <2>2. /\ \A i \in DOMAIN first : i \in DOMAIN (first \o msgs) /\ (first \o msgs)[i] = first[i]
        /\ \A i \in DOMAIN msgs : Len(first) + i \in DOMAIN (first \o msgs) /\ (first \o msgs)[Len(first) + i] = msgs[i]
        /\ \A i \in DOMAIN (first \o msgs) : i \in DOMAIN first \/ \E j \in DOMAIN msgs : i = Len(first) + j
    BY <2>1, JoinAt
  <2>3. Len(first) \in Nat /\ DOMAIN first = 1 .. Len(first) /\ DOMAIN msgs = 1 .. Len(msgs)
    BY <2>1
  <2> QED
    BY <2>1, <2>2, <2>3 DEF first
<1>6. Answered'
  <2> SUFFICES ASSUME NEW q \in Page, NEW i \in DOMAIN down'[q]
               PROVE  WellDown(down[q][i])'
    BY DEF Answered
  <2>1. PICK msgs : Told(q, msgs)
    OBVIOUS
  <2>2. PICK v : v = down'[q][i]
    OBVIOUS
  <2>3. CASE i \in DOMAIN down[q]
    <3>1. WellDown(v)
      BY <1>5, <2>1, <2>2, <2>3 DEF Inv, Wire, Messages, Answered
    <3>2. WellDown(v)'
      BY <3>1, WellGrows
    <3> QED
      BY <2>2, <3>2 DEF WellDown
  <2>4. CASE \E j \in DOMAIN msgs : i = Len(down[q]) + j
    <3>1. PICK j \in DOMAIN msgs : i = Len(down[q]) + j
      BY <2>4
    <3>2. v = msgs[j]
      BY <1>5, <2>1, <2>2, <3>1
    <3>3. v.cmd = "forked" => v.diagram \in forkOf'
      BY <2>1, <3>2 DEF Told, Left, Taken, Forking, InTune
    <3> QED
      BY <2>2, <3>3 DEF WellDown
  <2> QED
    BY <1>5, <2>1, <2>3, <2>4
<1>7. Unnamed'
  <2> SUFFICES ASSUME NEW q \in Page, tab[q].model = None
               PROVE  /\ \A i \in DOMAIN up'[q] : up'[q][i].cmd # "commit"
                      /\ \A i \in DOMAIN down'[q] : down'[q][i].cmd # "forked"
    BY DEF Unnamed
  <2>1. PICK msgs : Told(q, msgs)
    OBVIOUS
  <2>2. /\ \A i \in DOMAIN up[q] : up[q][i].cmd # "commit"
        /\ \A i \in DOMAIN down[q] : down[q][i].cmd # "forked"
    BY DEF Inv, Wire, Unnamed
  <2>3. \A i \in DOMAIN msgs : msgs[i].cmd # "forked"
    BY <2>1 DEF Told, Left, Taken, Forking, InTune
  <2>4. \A i \in DOMAIN up'[q] : up'[q][i].cmd # "commit"
    BY <1>2, <2>2
  <2>5. ASSUME NEW i \in DOMAIN down'[q]
        PROVE  down'[q][i].cmd # "forked"
    <3>1. \/ \E j \in DOMAIN down[q] : down'[q][i] = down[q][j]
          \/ \E j \in DOMAIN msgs : down'[q][i] = msgs[j]
      BY <1>5, <2>1
    <3> QED
      BY <2>2, <2>3, <3>1
  <2> QED
    BY <2>4, <2>5
<1>8. Forked'
  <2> SUFFICES ASSUME NEW q \in Page, NEW i \in DOMAIN down'[q], down'[q][i].cmd = "forked"
               PROVE  On(Template, tab[q].model, down'[q], i)
    BY DEF Forked, On, Snap
  <2>1. PICK msgs : Told(q, msgs)
    OBVIOUS
  <2> DEFINE first == down[q]
             model == tab[q].model
  <2>2. first \in Seq(Down) /\ msgs \in Seq(Down) /\ down'[q] = first \o msgs /\ Len(first) \in Nat
        /\ DOMAIN first = 1 .. Len(first)
    BY <1>5, <2>1
  <2>3. CASE i \in DOMAIN first
    <3>1. On(Template, model, first, i)
      BY <1>5, <2>1, <2>3 DEF Inv, Wire, Forked
    <3> HIDE DEF first, model
    <3>2. i \in 1 .. Len(first) + 1
      BY <2>2, <2>3
    <3>3. On(Template, model, first \o msgs, i)
      BY <2>2, <3>1, <3>2, OnLonger
    <3> QED
      BY <2>2, <3>3 DEF model
  <2>4. CASE \E j \in DOMAIN msgs : i = Len(first) + j
    <3>1. PICK j \in DOMAIN msgs : i = Len(first) + j
      BY <2>4
    <3>2. msgs[j].cmd = "forked"
      BY <1>5, <2>1, <3>1
    <3>3. Forking(q, msgs) /\ j = 1
      BY <2>1, <3>2 DEF Told, Left, Taken, Forking, InTune
    <3>4. On(Template, model, first, Len(first) + 1)
      <4>1. \/ On(Template, model, first, Len(first) + 1)
            \/ On(None, model, first, Len(first) + 1)
        BY <3>3 DEF Inv, Wire, OnTemplate, Forking
      <4>2. ~On(None, model, first, Len(first) + 1)
        <5>1. model # None
          BY <3>3 DEF Forking
        <5> HIDE DEF first, model
        <5>2. ASSUME NEW k \in 0 .. (Len(first) + 1) - 1, k # 0, Snap(first, k)
              PROVE  first[k].diagram # None
          <6>1. first[k] \in Down
            BY <2>2, <5>2
          <6> QED
            BY <5>2, <6>1, DownFields, Named DEF Snap
        <5> QED
          BY <5>1, <5>2 DEF On
      <4> QED
        BY <4>1, <4>2
    <3> HIDE DEF first, model
    <3>5. Len(first) + 1 \in 1 .. Len(first) + 1
      BY <2>2
    <3>6. On(Template, model, first \o msgs, Len(first) + 1)
      BY <2>2, <3>4, <3>5, OnLonger
    <3> QED
      BY <2>2, <3>1, <3>3, <3>6 DEF model
  <2> QED
    BY <1>5, <2>1, <2>3, <2>4
<1>9. OnTemplate'
  <2> SUFFICES ASSUME NEW q \in Page, seat'[q] = Template
               PROVE  \/ On(Template, tab[q].model, down'[q], Len(down'[q]) + 1)
                      \/ On(None, tab[q].model, down'[q], Len(down'[q]) + 1)
    BY DEF OnTemplate, On, Snap
  <2>1. PICK msgs : Told(q, msgs)
    OBVIOUS
  <2> DEFINE first == down[q]
             model == tab[q].model
  <2>2. first \in Seq(Down) /\ msgs \in Seq(Down) /\ down'[q] = first \o msgs /\ Len(first) \in Nat
        /\ DOMAIN first = 1 .. Len(first)
    BY <1>5, <2>1
  <2>3. CASE Left(q, msgs)
    <3>1. seat[q] = Template /\ \A i \in DOMAIN msgs : ~Snap(msgs, i)
      BY <2>3, Named DEF Left, Snap
    <3>2. PICK d \in {Template, None} : On(d, model, first, Len(first) + 1)
      BY <3>1 DEF Inv, Wire, OnTemplate
    <3> HIDE DEF first, model
    <3>3. On(d, model, first \o msgs, Len(first \o msgs) + 1)
      BY <2>2, <3>1, <3>2, OnCalm
    <3> QED
      BY <2>2, <3>3 DEF model
  <2>4. CASE Taken(q, msgs)
    <3>1. 1 \in DOMAIN msgs /\ Snap(msgs, 1) /\ msgs[1].diagram = Template
          /\ \A i \in DOMAIN msgs \ {1} : ~Snap(msgs, i)
      BY <2>4 DEF Taken, Snap
    <3> HIDE DEF first, model
    <3>2. On(msgs[1].diagram, model, first \o msgs, Len(first \o msgs) + 1)
      BY <2>2, <3>1, OnTaken
    <3> QED
      BY <2>2, <3>1, <3>2 DEF model
  <2>5. CASE InTune(q, msgs)
    <3>1. model = Template /\ \A i \in DOMAIN msgs : ~Snap(msgs, i)
      BY <2>5 DEF InTune, Snap
    <3>2. \A j \in DOMAIN first : ~Snap(first, j)
      BY <2>5 DEF InTune, Snap
    <3> HIDE DEF first, model
    <3>3. On(Template, model, first, Len(first) + 1)
      <4>1. 0 \in 0 .. (Len(first) + 1) - 1 /\ \A k \in 0 + 1 .. (Len(first) + 1) - 1 : k \in DOMAIN first
        BY <2>2
      <4> QED
        BY <3>1, <3>2, <4>1 DEF On
    <3>4. On(Template, model, first \o msgs, Len(first \o msgs) + 1)
      BY <2>2, <3>1, <3>3, OnCalm
    <3> QED
      BY <2>2, <3>4 DEF model
  <2> QED
    BY <2>1, <2>3, <2>4, <2>5 DEF Told, Forking
<1>10. First'
  <2> SUFFICES ASSUME NEW q \in Page, Virgin(tab[q])
               PROVE  /\ seat'[q] # None => \E j \in DOMAIN down'[q] : Snap(down'[q], j)
                      /\ \A i \in DOMAIN down'[q] : down'[q][i].cmd \in {"ack", "change"}
                            => \E j \in 1 .. i - 1 : Snap(down'[q], j)
    BY DEF First, Snap, Virgin
  <2>1. PICK msgs : Told(q, msgs)
    OBVIOUS
  <2>2. /\ seat[q] # None => \E j \in DOMAIN down[q] : Snap(down[q], j)
        /\ \A i \in DOMAIN down[q] : down[q][i].cmd \in {"ack", "change"}
                                        => \E j \in 1 .. i - 1 : Snap(down[q], j)
    BY DEF Inv, Wire, First
  <2>3. tab[q].model = None
    BY DEF Inv, Tabs, WellTab, Shown
  <2>4. Left(q, msgs) \/ Taken(q, msgs)
    BY <2>1, <2>3 DEF Told, Forking, InTune
  <2>5. \A j \in DOMAIN down[q] : Snap(down[q], j) => j \in DOMAIN down'[q] /\ Snap(down'[q], j)
    BY <1>5, <2>1 DEF Snap
  <2>6. seat'[q] # None => \E j \in DOMAIN down'[q] : Snap(down'[q], j)
    <3>1. CASE Left(q, msgs)
      BY <2>2, <2>5, <3>1 DEF Left
    <3>2. CASE Taken(q, msgs)
      <4>1. 1 \in DOMAIN msgs /\ Len(down[q]) + 1 \in DOMAIN down'[q] /\ Snap(down'[q], Len(down[q]) + 1)
        BY <1>5, <2>1, <3>2 DEF Taken, Snap
      <4> QED
        BY <4>1
    <3> QED
      BY <2>4, <3>1, <3>2
  <2>7. ASSUME NEW i \in DOMAIN down'[q], down'[q][i].cmd \in {"ack", "change"}
        PROVE  \E j \in 1 .. i - 1 : Snap(down'[q], j)
    <3>1. CASE i \in DOMAIN down[q]
      <4>1. PICK j \in 1 .. i - 1 : Snap(down[q], j)
        BY <1>5, <2>1, <2>2, <2>7, <3>1
      <4>2. j \in DOMAIN down[q]
        BY <1>5, <2>1, <3>1
      <4> QED
        BY <2>5, <4>1, <4>2
    <3>2. CASE \E j \in DOMAIN msgs : i = Len(down[q]) + j
      <4>1. PICK j \in DOMAIN msgs : i = Len(down[q]) + j
        BY <3>2
      <4>2. msgs[j].cmd \in {"ack", "change"}
        BY <1>5, <2>1, <2>7, <4>1
      <4>3. seat[q] # None
        BY <2>4, <4>2 DEF Left, Taken
      <4>4. PICK k \in DOMAIN down[q] : Snap(down[q], k)
        BY <2>2, <4>3
      <4>5. k \in 1 .. i - 1
        BY <1>5, <2>1, <4>1
      <4> QED
        BY <2>5, <4>4, <4>5
    <3> QED
      BY <1>5, <2>1, <3>1, <3>2
  <2> QED
    BY <2>6, <2>7
<1>11. Resuming'
  <2> SUFFICES ASSUME NEW q \in Page, NEW i \in DOMAIN up'[q], up'[q][i].cmd = "resume"
               PROVE  /\ i = 1 /\ seat'[q] = None /\ up'[q][i].diagram = tab[q].model
                      /\ ~Virgin(tab[q])
                      /\ \A j \in DOMAIN down'[q] : down'[q][j].cmd \in {"access", "error"}
    BY DEF Resuming, Virgin
  <2>1. PICK msgs : Told(q, msgs)
    OBVIOUS
  <2>2. CASE up'[q] = up[q] /\ ~(up[q] # << >> /\ up'[q] = Tail(up[q]))
    <3>1. /\ i = 1 /\ seat[q] = None /\ up[q][i].diagram = tab[q].model /\ ~Virgin(tab[q])
          /\ \A j \in DOMAIN down[q] : down[q][j].cmd \in {"access", "error"}
      BY <2>2 DEF Inv, Wire, Resuming
    <3>2. seat'[q] = None /\ \A j \in DOMAIN msgs : msgs[j].cmd = "access"
      BY <2>1, <2>2, <3>1 DEF Told
    <3>3. ASSUME NEW j \in DOMAIN down'[q]
          PROVE  down'[q][j].cmd \in {"access", "error"}
      <4>1. \/ \E k \in DOMAIN down[q] : down'[q][j] = down[q][k]
            \/ \E k \in DOMAIN msgs : down'[q][j] = msgs[k]
        BY <1>5, <2>1
      <4> QED
        BY <3>1, <3>2, <4>1
    <3> QED
      BY <2>2, <3>1, <3>2, <3>3
  <2>3. CASE up[q] # << >> /\ up'[q] = Tail(up[q])
    <3>1. up[q] \in Seq(Up)
      BY <1>1
    <3>2. i \in Nat \ {0} /\ i + 1 \in DOMAIN up[q] /\ Tail(up[q])[i] = up[q][i + 1]
      BY <2>3, <3>1, TailAt
    <3>3. i + 1 = 1
      BY <2>3, <3>2 DEF Inv, Wire, Resuming
    <3> QED
      BY <3>2, <3>3
  <2> QED
    BY <2>1, <2>2, <2>3 DEF Told
<1>12. Closed'
  <2> SUFFICES ASSUME NEW q \in Page, ~open[q]
               PROVE  up'[q] = << >> /\ down'[q] = << >> /\ seat'[q] = None
    BY DEF Closed
  <2>1. PICK msgs : Told(q, msgs)
    OBVIOUS
  <2>2. up[q] = << >> /\ down[q] = << >> /\ seat[q] = None
    BY DEF Inv, Wire, Closed
  <2>3. up'[q] = up[q] /\ seat'[q] = None /\ msgs = << >>
    BY <2>1, <2>2 DEF Told
  <2>4. << >> \o << >> = << >>
    OBVIOUS
  <2> QED
    BY <1>5, <2>1, <2>2, <2>3, <2>4
<1> QED
  BY <1>3, <1>4, <1>6, <1>7, <1>8, <1>9, <1>10, <1>11, <1>12 DEF Wire, Messages

-----------------------------------------------------------------------------
(* The actions of a page                                                    *)

LEMMA SoundGrows ==
    ASSUME Grown, NEW t, NEW r, Sound(t, r)
    PROVE  Sound(t, r)'
<1>1. r \in Result /\ WellTab(r.t)' /\ \A i \in DOMAIN r.out : WellUp(r.out[i])'
  BY WellGrows DEF Sound
<1> QED
  BY <1>1 DEF Sound, Virgin

\* What drains and is saved is sound after a step as it is before it.
LEMMA DrainAlways ==
    \A t \in Tab : \A isOpen \in BOOLEAN :
        WellTab(t) => Sound(t, Drain(t, isOpen)) /\ Drain(t, isOpen).t.model = t.model
  BY DrainSound
LEMMA DrainThen ==
    (\A t \in Tab : \A isOpen \in BOOLEAN :
        WellTab(t) => Sound(t, Drain(t, isOpen)) /\ Drain(t, isOpen).t.model = t.model)'
  BY DrainAlways, PTL

LEMMA PersistAlways ==
    \A t \in Tab : Outbox(t) /\ Shown(t) =>
        /\ Persist(t) \in Tab /\ WellTab(Persist(t))
        /\ Persist(t).model = t.model /\ Persist(t).hydrated = t.hydrated /\ Persist(t).expect = t.expect
  BY PersistSound
LEMMA PersistThen ==
    (\A t \in Tab : Outbox(t) /\ Shown(t) =>
        /\ Persist(t) \in Tab /\ WellTab(Persist(t))
        /\ Persist(t).model = t.model /\ Persist(t).hydrated = t.hydrated /\ Persist(t).expect = t.expect)'
  BY PersistAlways, PTL

LEMMA PageType ==
    ASSUME TypeOK, NEW p \in Page, NEW r, r \in Result, Sends(p, r), UNCHANGED <<server, open>>,
           down' \in [Page -> Seq(Down)], edits' \in 0 .. MaxEdits, events' \in Nat,
           made' \in Seq(Ids), Len(made') = edits', forkOf' \subseteq Diagram
    PROVE  TypeOK'
<1>1. tab' \in [Page -> Tab] /\ up' \in [Page -> Seq(Up)]
  BY SendsIs
<1> QED
  BY <1>1 DEF TypeOK, server

\* The server does nothing: its documents and sessions are as they were.
LEMMA PageRest ==
    ASSUME Inv, Grown, UNCHANGED server
    PROVE  (Copies /\ Lands /\ SeatsMinted /\ SeatsMayRead)'
<1>1. Copies'
  BY DEF Inv, Copies, Grown, server
<1>2. Lands'
  BY WellGrows DEF Inv, Lands, server
<1>3. SeatsMinted' /\ SeatsMayRead'
  BY DEF Inv, SeatsMinted, SeatsMayRead, server, Minted, Here, CanRead, Known
<1> QED
  BY <1>1, <1>2, <1>3

LEMMA GrownSame ==
    ASSUME TypeOK, UNCHANGED <<edits, made, forkOf>>
    PROVE  Grown
<1>1. edits \in Nat
  BY SeatsAssumption DEF TypeOK
<1> QED
  BY <1>1 DEF Grown

\* An edit, drawn on what the page shows.
LEMMA DrawKeeps ==
    ASSUME Inv, NEW p \in Page, Draw(p)
    PROVE  Inv'
<1> DEFINE e0 == edits + 1
           r0 == LET here == [tab[p] EXCEPT !.holds = @ \cup {e0}]
                 IN  IF ~Submits(here, e0) THEN [t |-> here, out |-> <<>>]
                     ELSE Drain(Persist([here EXCEPT !.outbox = Append(@, [e |-> e0, diagram |-> here.diagram, sent |-> FALSE])]),
                                open[p])
<1> HIDE DEF e0, r0
<1>1. PICK t, e, o, r : t = tab[p] /\ e = e0 /\ o = open[p] /\ r = r0
  OBVIOUS
<1>2. /\ edits < MaxEdits /\ edits' = e /\ made' = Append(made, t.model) /\ Sends(p, r)
      /\ UNCHANGED <<server, down, open, events, forkOf>>
  BY <1>1 DEF Draw, e0, r0
<1>3. /\ t \in Tab /\ e \in Edit /\ o \in BOOLEAN /\ edits \in Nat /\ made \in Seq(Ids) /\ Len(made) = edits
      /\ e = edits + 1 /\ e \in 0 .. MaxEdits /\ e \in 1 .. e
  BY <1>1, <1>2, SeatsAssumption DEF Inv, TypeOK, Edit, e0
<1>4. t.model \in Ids /\ t.diagram \in Ids /\ t.outbox \in Seq(Waiting) /\ t.holds \subseteq Edit
  BY <1>3, TabFields
<1>5. made' \in Seq(Ids) /\ Len(made') = edits' /\ made'[e] = t.model /\ \A i \in 1 .. edits : made'[i] = made[i]
  BY <1>2, <1>3, <1>4, AppendProperties
<1>6. Grown
  BY <1>2, <1>3, <1>5 DEF Grown
<1>7. WellTab(t) /\ WellTab(t)'
  BY <1>1, <1>6, WellGrows DEF Inv, Tabs
<1> DEFINE here == [t EXCEPT !.holds = t.holds \cup {e}]
<1>8. /\ here \in Tab /\ here.outbox = t.outbox /\ here.model = t.model /\ here.diagram = t.diagram
      /\ here.saved = t.saved /\ here.hydrated = t.hydrated /\ here.expect = t.expect /\ here.holds = t.holds \cup {e}
  BY <1>3, <1>4 DEF Tab
<1>9. r = IF ~t.hydrated THEN [t |-> here, out |-> <<>>]
          ELSE Drain(Persist([here EXCEPT !.outbox = Append(here.outbox, [e |-> e, diagram |-> here.diagram, sent |-> FALSE])]), o)
  BY <1>1, <1>8 DEF r0, e0, Submits
<1> HIDE DEF here
<1>10. Sound(t, r)' /\ r.t.model = t.model
  <2>1. CASE ~t.hydrated
    <3>1. t.model = None => Unbound(e)'
      BY <1>2, <1>3, <1>5 DEF Unbound
    <3>2. WellTab(here)'
      BY <1>7, <1>8, <2>1, <3>1 DEF WellTab, Outbox, Saved, Shown, Virgin
    <3>3. r = [t |-> here, out |-> << >>] /\ << >> \in Seq(Up) /\ DOMAIN << >> = {}
      BY <1>9, <2>1
    <3> QED
      BY <1>8, <3>2, <3>3 DEF Sound, Result, Virgin
  <2>2. CASE t.hydrated
    <3> DEFINE w == [e |-> e, diagram |-> t.diagram, sent |-> FALSE]
               outbox == Append(t.outbox, w)
               u == [here EXCEPT !.outbox = outbox]
    <3>1. t.model # None /\ t.diagram \in Doc
      <4>1. forkOf \subseteq Diagram
        BY DEF Inv, TypeOK
      <4>2. t.model # None /\ (t.model = t.diagram \/ t.diagram \in forkOf)
        BY <1>7, <2>2 DEF WellTab, Shown
      <4> QED
        BY <1>4, <4>1, <4>2 DEF Ids, Doc
    <3>2. w \in Waiting /\ w.e = e /\ w.diagram = t.diagram
      BY <1>3, <3>1 DEF Waiting
    <3> HIDE DEF w
    <3>3. outbox \in Seq(Waiting) /\ \A i \in DOMAIN outbox : (i \in DOMAIN t.outbox /\ outbox[i] = t.outbox[i]) \/ outbox[i] = w
      <4> DEFINE old == t.outbox
      <4>1. old \in Seq(Waiting)
        BY <1>4
      <4> HIDE DEF old
      <4>2. Append(old, w) \in Seq(Waiting) /\ Len(Append(old, w)) = Len(old) + 1
            /\ \A i \in 1 .. Len(old) : Append(old, w)[i] = old[i]
            /\ Append(old, w)[Len(old) + 1] = w
        BY <3>2, <4>1, AppendProperties
      <4>3. \A i \in DOMAIN Append(old, w) : i \in DOMAIN old \/ i = Len(old) + 1
        BY <4>1, <4>2
      <4> QED
        BY <4>1, <4>2, <4>3 DEF old
    <3> HIDE DEF outbox
    <3>4. /\ u \in Tab /\ u.outbox = outbox /\ u.model = t.model /\ u.diagram = t.diagram /\ u.saved = t.saved
          /\ u.hydrated = t.hydrated /\ u.expect = t.expect
      BY <1>8, <3>3 DEF Tab
    <3>5. Fits(e, t.model)' /\ Fits(e, t.diagram)'
      <4>1. t.model = t.diagram \/ (t.model = Template /\ t.diagram \in forkOf')
        BY <1>7 DEF WellTab, Shown
      <4> QED
        BY <1>2, <1>3, <1>5, <4>1 DEF Fits
    <3>6. r = Drain(Persist(u), o)
      BY <1>8, <1>9, <2>2 DEF outbox, w
    <3> HIDE DEF u
    <3>7. Outbox(u)' /\ Shown(u)'
      BY <1>7, <2>2, <3>1, <3>2, <3>3, <3>4, <3>5 DEF WellTab, Outbox, Shown, Virgin
    <3>8. Persist(u) \in Tab /\ WellTab(Persist(u))' /\ Persist(u).model = t.model /\ Persist(u).hydrated
      BY <2>2, <3>4, <3>7, PersistThen
    <3> DEFINE v == Persist(u)
    <3> HIDE DEF v
    <3>9. Sound(v, Drain(v, o))' /\ Drain(v, o).t.model = t.model
      BY <1>3, <3>8, DrainThen DEF v
    <3> QED
      BY <3>6, <3>8, <3>9 DEF Sound, Virgin, v
  <2> QED
    BY <2>1, <2>2
<1>11. open[p] \/ r.out = << >>
  <2>1. CASE ~t.hydrated
    BY <1>9, <2>1
  <2>2. CASE t.hydrated /\ ~o
    BY <1>9, <2>2 DEF Drain
  <2> QED
    BY <1>1, <2>1, <2>2
<1>12. (Tabs /\ Wire)'
  <2>1. UNCHANGED <<down, seat, open>>
    BY <1>2 DEF server
  <2> QED
    BY <1>1, <1>2, <1>6, <1>10, <1>11, <2>1, SpeechKeeps
<1>13. TypeOK'
  <2>1. /\ down' \in [Page -> Seq(Down)] /\ edits' \in 0 .. MaxEdits /\ events' \in Nat
        /\ forkOf' \subseteq Diagram /\ r \in Result /\ TypeOK
    BY <1>2, <1>3, <1>10 DEF Inv, TypeOK, Sound
  <2> QED
    BY <1>2, <1>5, <2>1, PageType
<1> QED
  BY <1>2, <1>6, <1>12, <1>13, PageRest DEF Inv

\* Another diagram is asked for, and the picture given up until it comes.
LEMMA AskKeeps ==
    ASSUME Inv, NEW p \in Page, NEW sent, Sound(tab[p], sent), sent.t.model = tab[p].model,
           NEW request \in Up, WellUp(request), request.cmd \notin {"resume", "commit"}, Ask(p, sent, request)
    PROVE  Inv'
<1> DEFINE u   == [sent.t EXCEPT !.hydrated = FALSE, !.expect = TRUE, !.outbox = <<>>]
           out == Append(sent.out, request)
           r   == [t |-> Persist(u), out |-> out]
<1>1. /\ open[p] /\ Sends(p, r) /\ events' = events + 1
      /\ UNCHANGED <<server, down, open, edits, made, forkOf>>
  BY DEF Ask, Happens
<1>2. TypeOK /\ Grown
  <2>1. TypeOK
    BY DEF Inv
  <2> QED
    BY <1>1, <2>1, GrownSame
<1>3. /\ sent.t \in Tab /\ sent.out \in Seq(Up) /\ WellTab(sent.t)
      /\ \A i \in DOMAIN sent.out :
            WellUp(sent.out[i]) /\ sent.out[i].cmd # "resume" /\ (sent.out[i].cmd = "commit" => sent.t.model # None)
  BY DEF Sound, Result
<1>4. /\ u \in Tab /\ u.outbox = << >> /\ u.model = sent.t.model /\ u.diagram = sent.t.diagram /\ u.saved = sent.t.saved
      /\ u.hydrated = FALSE /\ u.expect = TRUE
  <2>1. << >> \in Seq(Waiting)
    OBVIOUS
  <2> QED
    BY <1>3, <2>1 DEF Tab
<1> HIDE DEF u
<1>5. Outbox(u) /\ Shown(u)
  BY <1>3, <1>4 DEF WellTab, Outbox, Shown, Virgin
<1>6. /\ Persist(u) \in Tab /\ WellTab(Persist(u)) /\ Persist(u).model = tab[p].model /\ ~Virgin(Persist(u))
  BY <1>4, <1>5, PersistSound DEF Virgin
<1>7. out \in Seq(Up) /\ \A i \in DOMAIN out : (i \in DOMAIN sent.out /\ out[i] = sent.out[i]) \/ out[i] = request
  <2> DEFINE old == sent.out
  <2>1. old \in Seq(Up)
    BY <1>3
  <2> HIDE DEF old
  <2>2. Append(old, request) \in Seq(Up) /\ Len(Append(old, request)) = Len(old) + 1
        /\ \A i \in 1 .. Len(old) : Append(old, request)[i] = old[i]
        /\ Append(old, request)[Len(old) + 1] = request
    BY <2>1, AppendProperties
  <2>3. \A i \in DOMAIN Append(old, request) : i \in DOMAIN old \/ i = Len(old) + 1
    BY <2>1, <2>2
  <2> QED
    BY <2>1, <2>2, <2>3 DEF old
<1> HIDE DEF out
<1> DEFINE v == Persist(u)
<1> HIDE DEF v
<1>8. PICK t : t = tab[p]
  OBVIOUS
<1>9. Sound(t, [t |-> v, out |-> out])
  BY <1>3, <1>4, <1>6, <1>7, <1>8 DEF Sound, Result, v
<1>10. Sound(t, [t |-> v, out |-> out])'
  BY <1>2, <1>9, SoundGrows
<1>11. PICK answer : answer = [t |-> v, out |-> out]
  OBVIOUS
<1>12. Sends(p, answer) /\ answer.t.model = t.model /\ Sound(t, answer)' /\ answer \in Result
  BY <1>1, <1>6, <1>8, <1>9, <1>10, <1>11 DEF v, Sound
<1>13. (Tabs /\ Wire)'
  <2>1. UNCHANGED <<down, seat, open>>
    BY <1>1 DEF server
  <2> QED
    BY <1>1, <1>2, <1>8, <1>12, <2>1, SpeechKeeps
<1>14. TypeOK'
  <2>1. /\ down' \in [Page -> Seq(Down)] /\ edits' \in 0 .. MaxEdits /\ events' \in Nat
        /\ made' \in Seq(Ids) /\ Len(made') = edits' /\ forkOf' \subseteq Diagram
    BY <1>1, <1>2 DEF TypeOK
  <2>2. UNCHANGED <<server, open>>
    BY <1>1
  <2> QED
    BY <1>2, <1>12, <2>1, <2>2, PageType
<1> QED
  BY <1>1, <1>2, <1>13, <1>14, PageRest DEF Inv

LEMMA TabIn ==
    ASSUME Inv, NEW p \in Page
    PROVE  tab[p] \in Tab /\ WellTab(tab[p]) /\ open[p] \in BOOLEAN
  BY DEF Inv, TypeOK, Tabs

LEMMA AskingKeeps ==
    ASSUME Inv, NEW p \in Page,
           CreateDiagram(p) \/ DeleteDiagram(p) \/ \E d \in Doc : OpenDiagram(p, d)
    PROVE  Inv'
<1>1. Sound(tab[p], Drain(tab[p], TRUE)) /\ Drain(tab[p], TRUE).t.model = tab[p].model
  BY TabIn, DrainSound
<1>2. Sound(tab[p], [t |-> tab[p], out |-> <<>>])
  <2>1. << >> \in Seq(Up) /\ DOMAIN << >> = {}
    OBVIOUS
  <2> QED
    BY <2>1, TabIn DEF Sound, Result
<1>3. CASE \E d \in Doc : OpenDiagram(p, d)
  <2>1. PICK d \in Doc : OpenDiagram(p, d)
    BY <1>3
  <2> DEFINE request == [cmd |-> "open", diagram |-> d]
  <2>2. request \in Up /\ WellUp(request) /\ request.cmd \notin {"resume", "commit"}
    BY Named, IsUp DEF WellUp
  <2>3. Ask(p, Drain(tab[p], TRUE), request)
    BY <2>1 DEF OpenDiagram
  <2> HIDE DEF request
  <2> QED
    BY <1>1, <2>2, <2>3, AskKeeps
<1>4. CASE CreateDiagram(p)
  <2> DEFINE request == [cmd |-> "create", doc |-> {}]
  <2>1. request \in Up /\ WellUp(request) /\ request.cmd \notin {"resume", "commit"}
    BY IsUp DEF WellUp
  <2>2. Ask(p, Drain(tab[p], TRUE), request)
    BY <1>4 DEF CreateDiagram
  <2> HIDE DEF request
  <2> QED
    BY <1>1, <2>1, <2>2, AskKeeps
<1>5. CASE DeleteDiagram(p)
  <2> DEFINE request == [cmd |-> "delete", diagram |-> tab[p].model]
             sent    == [t |-> tab[p], out |-> <<>>]
  <2>1. request \in Up /\ WellUp(request) /\ request.cmd \notin {"resume", "commit"}
    BY TabIn, TabFields, IsUp DEF WellUp
  <2>2. Ask(p, sent, request) /\ sent.t.model = tab[p].model
    BY <1>5 DEF DeleteDiagram
  <2>3. Sound(tab[p], sent)
    BY <1>2
  <2> HIDE DEF request, sent
  <2> QED
    BY <2>1, <2>2, <2>3, AskKeeps
<1> QED
  BY <1>3, <1>4, <1>5

LEMMA ReadOnlyPulseKeeps ==
    ASSUME Inv, NEW p \in Page, ReadOnlyPulse(p)
    PROVE  Inv'
<1> DEFINE u == [tab[p] EXCEPT !.outbox = <<>>]
<1>1. /\ tab' = [tab EXCEPT ![p] = Persist(u)]
      /\ UNCHANGED <<server, up, down, open, edits, events, made, forkOf>>
  BY DEF ReadOnlyPulse, counts
<1>2. TypeOK /\ Grown
  <2>1. TypeOK
    BY DEF Inv
  <2> QED
    BY <1>1, <2>1, GrownSame
<1>3. /\ u \in Tab /\ u.outbox = << >> /\ u.model = tab[p].model /\ u.diagram = tab[p].diagram /\ u.saved = tab[p].saved
      /\ u.hydrated = tab[p].hydrated /\ u.expect = tab[p].expect /\ u.holds = tab[p].holds
  <2>1. << >> \in Seq(Waiting)
    OBVIOUS
  <2> QED
    BY <2>1, TabIn DEF Tab
<1> HIDE DEF u
<1>4. Outbox(u) /\ Shown(u)
  BY <1>3, TabIn DEF WellTab, Outbox, Shown, Virgin
<1>5. /\ Persist(u) \in Tab /\ WellTab(Persist(u)) /\ Persist(u).model = tab[p].model
      /\ (Virgin(Persist(u)) => Virgin(tab[p]))
  BY <1>3, <1>4, PersistSound DEF Virgin
<1>6. PICK t, v, r : t = tab[p] /\ v = Persist(u) /\ r = [t |-> v, out |-> << >>]
  OBVIOUS
<1>7. << >> \in Seq(Up) /\ DOMAIN << >> = {}
  OBVIOUS
<1>8. Sound(t, r)
  BY <1>5, <1>6, <1>7 DEF Sound, Result
<1>9. Sound(t, r)' /\ r.t.model = t.model /\ r \in Result
  BY <1>2, <1>5, <1>6, <1>8, SoundGrows DEF Sound
<1>10. Sends(p, r)
  <2>1. up[p] \in Seq(Up) /\ up \in [Page -> Seq(Up)]
    BY <1>2 DEF TypeOK
  <2>2. up[p] \o << >> = up[p]
    BY <2>1, ConcatEmptySeq
  <2>3. up' = [up EXCEPT ![p] = up[p] \o << >>]
    BY <1>1, <2>1, <2>2
  <2> QED
    BY <1>1, <1>6, <2>3 DEF Sends
<1>11. (Tabs /\ Wire)'
  <2>1. UNCHANGED <<down, seat, open>> /\ r.out = << >>
    BY <1>1, <1>6 DEF server
  <2> QED
    BY <1>2, <1>6, <1>9, <1>10, <2>1, SpeechKeeps
<1>12. TypeOK'
  <2>1. /\ down' \in [Page -> Seq(Down)] /\ edits' \in 0 .. MaxEdits /\ events' \in Nat
        /\ made' \in Seq(Ids) /\ Len(made') = edits' /\ forkOf' \subseteq Diagram
    BY <1>1, <1>2 DEF TypeOK
  <2>2. UNCHANGED <<server, open>>
    BY <1>1
  <2> QED
    BY <1>2, <1>9, <1>10, <2>1, <2>2, PageType
<1> QED
  BY <1>1, <1>2, <1>11, <1>12, PageRest DEF Inv

LEMMA HearKeeps ==
    ASSUME Inv, NEW p \in Page, Hear(p)
    PROVE  Inv'
<1>1. PICK t, m, r : t = tab[p] /\ m = down[p][1] /\ r = Heard(t, m)
  OBVIOUS
<1>2. TypeOK /\ down[p] \in Seq(Down) /\ down[p] # << >>
  BY DEF Inv, TypeOK, Hear
<1>3. Head(down[p]) = down[p][1] /\ 1 \in DOMAIN down[p] /\ Tail(down[p]) \in Seq(Down) /\ m \in Down
  BY <1>1, <1>2
<1>4. /\ down' = [down EXCEPT ![p] = Tail(@)] /\ Sends(p, r)
      /\ UNCHANGED <<server, open, edits, events, made, forkOf>>
  BY <1>1, <1>3 DEF Hear, counts
<1>5. Grown
  BY <1>2, <1>4, GrownSame
<1>6. WellDown(m)
  BY <1>1, <1>3 DEF Inv, Wire, Messages, Answered
<1>7. m.cmd \in {"ack", "change"} => ~Virgin(t)
  BY <1>1, <1>3 DEF Inv, Wire, First
<1>8. m.cmd = "forked" => t.model = Template
  <2>1. m.cmd = "forked" => On(Template, t.model, down[p], 1)
    BY <1>1, <1>3 DEF Inv, Wire, Forked
  <2>2. \A j \in 0 .. 1 - 1 : j = 0
    OBVIOUS
  <2> QED
    BY <2>1, <2>2 DEF On
<1>9. /\ Sound(t, r)
      /\ m.cmd = "snapshot" => ~Virgin(r.t) /\ (r.t.model = m.diagram \/ (Virgin(t) /\ r.t.model = t.model))
      /\ m.cmd # "snapshot" => r.t.model = t.model
  <2>1. t \in Tab /\ WellTab(t)
    BY <1>1, TabIn
  <2> QED
    BY <1>1, <1>3, <1>6, <1>7, <1>8, <2>1, HeardSound
<1>10. Sound(t, r)' /\ r \in Result
  BY <1>5, <1>9, SoundGrows DEF Sound
<1>11. (Tabs /\ Wire)'
  <2>1. UNCHANGED <<seat, open>>
    BY <1>4 DEF server
  <2> QED
    BY <1>1, <1>2, <1>4, <1>5, <1>9, <1>10, <2>1, HearingKeeps
<1>12. TypeOK'
  <2>1. down' \in [Page -> Seq(Down)]
    BY <1>2, <1>3, <1>4 DEF TypeOK
  <2>2. /\ edits' \in 0 .. MaxEdits /\ events' \in Nat
        /\ made' \in Seq(Ids) /\ Len(made') = edits' /\ forkOf' \subseteq Diagram
    BY <1>2, <1>4 DEF TypeOK
  <2>3. UNCHANGED <<server, open>>
    BY <1>4
  <2> QED
    BY <1>2, <1>4, <1>10, <2>1, <2>2, <2>3, PageType
<1> QED
  BY <1>4, <1>5, <1>11, <1>12, PageRest DEF Inv

\* A page says where it was, or which diagram it would like.
LEMMA ConnectKeeps ==
    ASSUME Inv, NEW p \in Page, Connect(p)
    PROVE  Inv'
<1> DEFINE marked == [i \in DOMAIN tab[p].outbox |-> [tab[p].outbox[i] EXCEPT !.sent = FALSE]]
           u == [tab[p] EXCEPT !.resync = FALSE, !.outbox = marked]
           resume == [cmd |-> "resume", diagram |-> tab[p].model, version |-> tab[p].version]
           hello  == [cmd |-> "hello", diagram |-> tab[p].last]
<1>1. /\ ~open[p] /\ open' = [open EXCEPT ![p] = TRUE]
      /\ Sends(p, IF tab[p].hydrated THEN [t |-> u, out |-> << resume >>] ELSE [t |-> tab[p], out |-> << hello >>])
      /\ UNCHANGED <<server, down, edits, events, made, forkOf>>
  BY DEF Connect, counts
<1>2. TypeOK /\ Grown /\ tab[p] \in Tab /\ WellTab(tab[p])
  <2>1. TypeOK
    BY DEF Inv
  <2> QED
    BY <1>1, <2>1, GrownSame, TabIn
<1>3. up[p] = << >> /\ down[p] = << >> /\ seat[p] = None
  BY <1>1 DEF Inv, Wire, Closed
<1>4. /\ marked \in Seq(Waiting) /\ DOMAIN marked = DOMAIN tab[p].outbox /\ (tab[p].outbox = << >> => marked = << >>)
      /\ \A i \in DOMAIN tab[p].outbox : /\ marked[i].e = tab[p].outbox[i].e
                                         /\ marked[i].diagram = tab[p].outbox[i].diagram
  <2>1. tab[p].outbox \in Seq(Waiting)
    BY <1>2, TabFields
  <2> QED
    BY <2>1, MarkedIs
<1> HIDE DEF marked
<1>5. /\ u \in Tab /\ u.outbox = marked /\ u.model = tab[p].model /\ u.diagram = tab[p].diagram /\ u.saved = tab[p].saved
      /\ u.hydrated = tab[p].hydrated /\ u.expect = tab[p].expect /\ u.holds = tab[p].holds
  BY <1>2, <1>4 DEF Tab
<1> HIDE DEF u
<1>6. WellTab(u)
  BY <1>2, <1>4, <1>5 DEF WellTab, Outbox, Saved, Shown, Virgin
<1>7. resume \in Up /\ hello \in Up
  BY <1>2, TabFields, IsUp
<1>8. PICK c, v : IF tab[p].hydrated THEN c = resume /\ v = u ELSE c = hello /\ v = tab[p]
  OBVIOUS
<1>9. /\ c \in Up /\ v \in Tab /\ WellTab(v) /\ v.model = tab[p].model /\ (Virgin(v) => Virgin(tab[p]))
      /\ c.cmd \in {"resume", "hello"}
      /\ c.cmd = "resume" => c.diagram = tab[p].model /\ ~Virgin(tab[p])
  BY <1>2, <1>5, <1>6, <1>7, <1>8 DEF Virgin
<1>10. PICK r : r = [t |-> v, out |-> << c >>]
  OBVIOUS
<1>11. Sends(p, r)
  BY <1>1, <1>8, <1>10
<1> HIDE DEF resume, hello
<1>12. << c >> \in Seq(Up) /\ DOMAIN << c >> = {1} /\ << c >>[1] = c /\ << >> \o << c >> = << c >>
  <2>1. << c >> \in Seq(Up) /\ DOMAIN << c >> = {1} /\ << c >>[1] = c
    BY <1>9, OneMessage
  <2>2. << >> \o << c >> = << c >>
    BY <2>1, ConcatEmptySeq
  <2> QED
    BY <2>1, <2>2
<1>13. r \in Result /\ r.t = v /\ r.out = << c >>
  BY <1>9, <1>10, <1>12 DEF Result
<1>14. /\ tab' \in [Page -> Tab] /\ up' \in [Page -> Seq(Up)]
       /\ tab'[p] = v /\ up'[p] = << c >>
       /\ \A q \in Page \ {p} : tab'[q] = tab[q] /\ up'[q] = up[q]
  <2>1. /\ tab' \in [Page -> Tab] /\ up' \in [Page -> Seq(Up)]
        /\ tab'[p] = r.t /\ up'[p] = up[p] \o r.out
        /\ \A q \in Page \ {p} : tab'[q] = tab[q] /\ up'[q] = up[q]
    BY <1>2, <1>11, <1>13, SendsIs
  <2>2. up'[p] = << c >>
    BY <1>3, <1>12, <1>13, <2>1
  <2> QED
    BY <1>13, <2>1, <2>2
<1>15. \A q \in Page : tab'[q].model = tab[q].model /\ (Virgin(tab'[q]) => Virgin(tab[q]))
  BY <1>9, <1>14
<1>16. /\ \A q \in Page : WellTab(tab'[q])
       /\ \A q \in Page : \A i \in DOMAIN up'[q] : WellUp(up'[q][i]) /\ (q = p => i = 1 /\ up'[q][i] = c)
  <2>1. WellUp(c)
    BY <1>9 DEF WellUp
  <2> QED
    BY <1>9, <1>12, <1>14, <2>1 DEF Inv, Tabs, Wire, Messages, Asked
<1>17. Tabs'
  <2> SUFFICES ASSUME NEW q \in Page PROVE WellTab(tab[q])'
    BY DEF Tabs
  <2>1. PICK x : x = tab'[q]
    OBVIOUS
  <2>2. WellTab(x)'
    BY <1>2, <1>16, <2>1, WellGrows
  <2> QED
    BY <2>1, <2>2 DEF WellTab, Outbox, Saved, Shown, Virgin
<1>18. Messages'
  <2>1. Asked'
    <3> SUFFICES ASSUME NEW q \in Page, NEW i \in DOMAIN up'[q]
                 PROVE  WellUp(up[q][i])'
      BY DEF Asked
    <3>1. PICK x : x = up'[q][i]
      OBVIOUS
    <3>2. WellUp(x)'
      BY <1>2, <1>16, <3>1, WellGrows
    <3> QED
      BY <3>1, <3>2 DEF WellUp
  <2>2. Answered'
    BY <1>1 DEF Inv, Wire, Messages, Answered, WellDown
  <2> QED
    BY <2>1, <2>2 DEF Messages
<1>19. Forked' /\ OnTemplate'
  <2>1. UNCHANGED <<seat, down>>
    BY <1>1 DEF server
  <2> QED
    BY <1>15, <2>1 DEF Inv, Wire, Forked, OnTemplate, On, Snap
<1>20. Unnamed'
  <2> SUFFICES ASSUME NEW q \in Page, tab'[q].model = None
               PROVE  /\ \A i \in DOMAIN up'[q] : up'[q][i].cmd # "commit"
                      /\ \A i \in DOMAIN down'[q] : down'[q][i].cmd # "forked"
    BY DEF Unnamed
  <2>1. CASE q = p
    BY <1>1, <1>9, <1>15, <1>16, <2>1 DEF Inv, Wire, Unnamed
  <2>2. CASE q # p
    BY <1>1, <1>14, <1>15, <2>2 DEF Inv, Wire, Unnamed
  <2> QED
    BY <2>1, <2>2
<1>21. First'
  <2>1. UNCHANGED <<seat, down>>
    BY <1>1 DEF server
  <2> QED
    BY <1>15, <2>1 DEF Inv, Wire, First, Snap, Virgin
<1>22. Resuming'
  <2> SUFFICES ASSUME NEW q \in Page, NEW i \in DOMAIN up'[q], up'[q][i].cmd = "resume"
               PROVE  /\ i = 1 /\ seat'[q] = None /\ up'[q][i].diagram = tab'[q].model
                      /\ ~Virgin(tab'[q])
                      /\ \A j \in DOMAIN down'[q] : down'[q][j].cmd \in {"access", "error"}
    BY DEF Resuming, Virgin
  <2>1. seat' = seat /\ down' = down
    BY <1>1 DEF server
  <2>2. CASE q = p
    <3>1. DOMAIN down'[q] = {}
      BY <1>3, <2>1, <2>2
    <3> QED
      BY <1>3, <1>9, <1>15, <1>16, <2>1, <2>2, <3>1
  <2>3. CASE q # p
    BY <1>14, <1>15, <2>1, <2>3 DEF Inv, Wire, Resuming
  <2> QED
    BY <2>2, <2>3
<1>23. Closed'
  <2> SUFFICES ASSUME NEW q \in Page, ~open'[q]
               PROVE  up'[q] = << >> /\ down'[q] = << >> /\ seat'[q] = None
    BY DEF Closed
  <2>1. q # p /\ ~open[q]
    BY <1>1, <1>2 DEF TypeOK
  <2> QED
    BY <1>1, <1>14, <2>1 DEF Inv, Wire, Closed, server
<1>24. TypeOK'
  BY <1>1, <1>2, <1>14 DEF TypeOK, server
<1> QED
  BY <1>1, <1>2, <1>17, <1>18, <1>19, <1>20, <1>21, <1>22, <1>23, <1>24, PageRest DEF Inv, Wire

\* A socket that drops, whether or not its page is loaded again.
LEMMA GoneKeeps ==
    ASSUME Inv, NEW p \in Page, Drop(p) \/ Reload(p)
    PROVE  Inv'
<1>1. /\ open' = [open EXCEPT ![p] = FALSE] /\ events' = events + 1
      /\ up' = [up EXCEPT ![p] = <<>>] /\ down' = [down EXCEPT ![p] = <<>>]
      /\ seat' = [seat EXCEPT ![p] = None] /\ fork' = [fork EXCEPT ![p] = None]
      /\ UNCHANGED <<shipped, owner, gone, grants, doc, edits, made, forkOf>>
  BY DEF Drop, Reload, Gone, Happens
<1> DEFINE u == [NewTab(tab[p].last) EXCEPT !.saved = tab[p].saved]
<1>2. tab' = tab \/ tab' = [tab EXCEPT ![p] = u]
  BY DEF Drop, Reload
<1>3. TypeOK /\ Grown /\ tab[p] \in Tab /\ WellTab(tab[p])
  <2>1. TypeOK
    BY DEF Inv
  <2> QED
    BY <1>1, <2>1, GrownSame, TabIn
<1>4. /\ u \in Tab /\ WellTab(u)
  <2>1. << >> \in Seq(Waiting) /\ DOMAIN << >> = {} /\ None \in Ids
    BY DEF Ids
  <2>2. u \in Tab
    BY <1>3, <2>1 DEF Tab, NewTab
  <2>3. /\ u.outbox = << >> /\ u.model = None /\ u.diagram = None /\ u.saved = tab[p].saved
        /\ u.hydrated = FALSE /\ u.holds = {}
    BY DEF NewTab
  <2> HIDE DEF u
  <2>4. WellTab(u)
    BY <1>3, <2>1, <2>3 DEF WellTab, Outbox, Saved, Shown
  <2> QED
    BY <2>2, <2>4
<1> HIDE DEF u
<1>5. /\ up'[p] = << >> /\ down'[p] = << >> /\ seat'[p] = None /\ fork'[p] = None
      /\ \A q \in Page \ {p} : /\ up'[q] = up[q] /\ down'[q] = down[q] /\ seat'[q] = seat[q] /\ fork'[q] = fork[q]
                               /\ tab'[q] = tab[q] /\ open'[q] = open[q]
      /\ \A q \in Page : tab'[q] \in Tab /\ WellTab(tab'[q])
      /\ DOMAIN << >> = {}
  <2>1. /\ up \in [Page -> Seq(Up)] /\ down \in [Page -> Seq(Down)] /\ seat \in [Page -> Ids]
        /\ fork \in [Page -> Diagram \cup {None}] /\ open \in [Page -> BOOLEAN] /\ tab \in [Page -> Tab]
    BY <1>3 DEF TypeOK
  <2>2. /\ up'[p] = << >> /\ down'[p] = << >> /\ seat'[p] = None /\ fork'[p] = None
        /\ \A q \in Page \ {p} : /\ up'[q] = up[q] /\ down'[q] = down[q] /\ seat'[q] = seat[q] /\ fork'[q] = fork[q]
                                 /\ open'[q] = open[q]
    BY <1>1, <2>1
  <2>3. \A q \in Page \ {p} : tab'[q] = tab[q]
    BY <1>2, <2>1
  <2>4. \A q \in Page : tab'[q] \in Tab /\ WellTab(tab'[q])
    <3>1. \A q \in Page : WellTab(tab[q])
      BY DEF Inv, Tabs
    <3> QED
      BY <1>2, <1>4, <2>1, <3>1
  <2> QED
    BY <2>2, <2>3, <2>4
<1>6. Tabs'
  <2> SUFFICES ASSUME NEW q \in Page PROVE WellTab(tab[q])'
    BY DEF Tabs
  <2>1. PICK x : x = tab'[q]
    OBVIOUS
  <2>2. WellTab(x)'
    BY <1>3, <1>5, <2>1, WellGrows
  <2> QED
    BY <2>1, <2>2 DEF WellTab, Outbox, Saved, Shown, Virgin
<1>7. Messages'
  BY <1>1, <1>5 DEF Inv, Wire, Messages, Asked, Answered, WellUp, WellDown, Fits, Unbound
<1>8. Forked' /\ Unnamed'
  BY <1>5 DEF Inv, Wire, Forked, Unnamed, On, Snap
<1>9. OnTemplate'
  BY <1>5, Named DEF Inv, Wire, OnTemplate, On, Snap
<1>10. First'
  BY <1>5 DEF Inv, Wire, First, Snap, Virgin
<1>11. Resuming' /\ Closed'
  BY <1>5 DEF Inv, Wire, Resuming, Closed, Virgin
<1>12. TypeOK'
  <2>1. tab' \in [Page -> Tab]
    BY <1>2, <1>3, <1>4 DEF TypeOK
  <2>2. /\ up' \in [Page -> Seq(Up)] /\ down' \in [Page -> Seq(Down)] /\ open' \in [Page -> BOOLEAN]
        /\ seat' \in [Page -> Ids] /\ fork' \in [Page -> Diagram \cup {None}] /\ events' \in Nat
    <3>1. << >> \in Seq(Up) /\ << >> \in Seq(Down) /\ None \in Ids
      BY DEF Ids
    <3> QED
      BY <1>1, <1>3, <3>1 DEF TypeOK
  <2> QED
    BY <1>1, <1>3, <2>1, <2>2 DEF TypeOK
<1>13. (Copies /\ Lands /\ SeatsMinted /\ SeatsMayRead)'
  <2>1. Copies' /\ Lands'
    BY <1>1, <1>5 DEF Inv, Copies, Lands, Fits
  <2>2. SeatsMinted' /\ SeatsMayRead'
    BY <1>1, <1>5, SeatsAssumption DEF Inv, SeatsMinted, SeatsMayRead, Minted, Here, CanRead, Known
  <2> QED
    BY <2>1, <2>2
<1> QED
  BY <1>6, <1>7, <1>8, <1>9, <1>10, <1>11, <1>12, <1>13 DEF Inv, Wire

-----------------------------------------------------------------------------
(* The actions of the server                                                *)

LEMMA NothingTold ==
    ASSUME NEW q \in Seq(Down)
    PROVE  << >> \in Seq(Down) /\ DOMAIN << >> = {} /\ q \o << >> = q
  BY ConcatEmptySeq

\* A session answers its page, and is left, taken, forked or in tune; no other moves.
LEMMA AnswerTold ==
    ASSUME Inv, NEW p \in Page, up[p] # << >>, NEW msgs \in Seq(Down), Answer(p, msgs),
           Left(p, msgs) \/ Taken(p, msgs) \/ Forking(p, msgs) \/ InTune(p, msgs),
           \A q \in Page \ {p} : seat'[q] = seat[q]
    PROVE  /\ \A q \in Page : \E ms : Told(q, ms)
           /\ down' \in [Page -> Seq(Down)] /\ up' \in [Page -> Seq(Up)]
<1>1. up \in [Page -> Seq(Up)] /\ down \in [Page -> Seq(Down)]
  BY DEF Inv, TypeOK
<1>2. Tail(up[p]) \in Seq(Up) /\ down[p] \o msgs \in Seq(Down)
  BY <1>1, JoinAt, TailAt
<1>3. /\ up'[p] = Tail(up[p]) /\ down'[p] = down[p] \o msgs
      /\ \A q \in Page \ {p} : up'[q] = up[q] /\ down'[q] = down[q]
  BY <1>1 DEF Answer
<1>4. Told(p, msgs)
  BY <1>3 DEF Told
<1>5. ASSUME NEW q \in Page \ {p}
      PROVE  Told(q, << >>)
  <2>1. << >> \in Seq(Down) /\ DOMAIN << >> = {} /\ down[q] \o << >> = down[q]
    BY <1>1, NothingTold
  <2> QED
    BY <1>3, <2>1 DEF Told, Left
<1>6. \A q \in Page : \E ms : Told(q, ms)
  BY <1>4, <1>5
<1>7. down' \in [Page -> Seq(Down)] /\ up' \in [Page -> Seq(Up)]
  BY <1>1, <1>2 DEF Answer
<1> QED
  BY <1>6, <1>7

LEMMA SnapshotIs ==
    ASSUME NEW d \in Doc, NEW p, doc' \in [Doc -> SUBSET Edit]
    PROVE  Snapshot(d, p)' \in Down /\ Snapshot(d, p)'.cmd = "snapshot" /\ Snapshot(d, p)'.diagram = d
<1> DEFINE w == CanWrite(d, p)' \/ d = Template
           l == {i \in Doc : CanRead(i, p)'}
<1>1. w \in BOOLEAN /\ l \in SUBSET Doc /\ doc'[d] \in SUBSET Edit
  BY DEF CanWrite
<1>2. Snapshot(d, p)' = [cmd |-> "snapshot", diagram |-> d, doc |-> doc'[d], write |-> w, listed |-> l]
  BY DEF Snapshot
<1> HIDE DEF w, l
<1> QED
  BY <1>1, <1>2, IsDown

LEMMA TakeTold ==
    ASSUME Inv, NEW p \in Page, up[p] # << >>, NEW d \in Doc, doc' \in [Doc -> SUBSET Edit], Take(p, d)
    PROVE  /\ \A q \in Page : \E ms : Told(q, ms)
           /\ down' \in [Page -> Seq(Down)] /\ up' \in [Page -> Seq(Up)] /\ seat' \in [Page -> Ids]
           /\ seat'[p] = d /\ \A q \in Page \ {p} : seat'[q] = seat[q]
<1>1. PICK s : s = Snapshot(d, p)'
  OBVIOUS
<1>2. s \in Down /\ s.cmd = "snapshot" /\ s.diagram = d
  BY <1>1, SnapshotIs
<1>3. Answer(p, << s >>)
  BY <1>1 DEF Take, Answer
<1>4. /\ seat' \in [Page -> Ids] /\ seat'[p] = d /\ \A q \in Page \ {p} : seat'[q] = seat[q]
  BY Named DEF Inv, TypeOK, Take
<1>5. << s >> \in Seq(Down) /\ DOMAIN << s >> = {1} /\ << s >>[1] = s
  BY <1>2, OneMessage
<1>6. Taken(p, << s >>)
  BY <1>2, <1>4, <1>5 DEF Taken
<1> QED
  BY <1>3, <1>4, <1>5, <1>6, AnswerTold

\* Nothing is written, and nothing more forked.
LEMMA DocsKept ==
    ASSUME Inv, Grown, doc' = doc, fork' = fork
    PROVE  Copies' /\ Lands'
<1>1. Copies'
  BY DEF Inv, Copies, Grown
<1>2. Lands'
  BY WellGrows DEF Inv, Lands
<1> QED
  BY <1>1, <1>2

\* The session is on an id that has an owner, and may read it while it is there.
Seated(q) ==
    /\ seat[q] \in Diagram => seat[q] \in Minted
    /\ seat[q] # None /\ Known(seat[q]) => CanRead(seat[q], q)

\* As long as ids keep their owners, grants stand and what is deleted stays so, a
\* session that stays where it is may read it, and one that is moved to what it
\* may read may too.
LEMMA SeatsKept ==
    ASSUME Inv, UNCHANGED <<shipped, grants>>, gone \subseteq gone', owner' \in [Diagram -> Page \cup {None}],
           \A d \in Minted : owner'[d] = owner[d],
           \A q \in Page : \/ seat'[q] = seat[q] \/ seat'[q] = None
                           \/ Seated(q)'
    PROVE  SeatsMinted' /\ SeatsMayRead'
<1> SUFFICES ASSUME NEW q \in Page PROVE Seated(q)'
  BY DEF SeatsMinted, SeatsMayRead, Seated
<1>1. CASE seat'[q] = None
  BY <1>1, SeatsAssumption DEF Seated
<1>2. CASE seat'[q] = seat[q] /\ seat[q] # None
  <2>1. PICK d : d = seat[q]
    OBVIOUS
  <2>2. Seated(q) /\ d = seat'[q] /\ d \in Ids /\ d # None
    BY <1>2, <2>1 DEF Inv, TypeOK, SeatsMinted, SeatsMayRead, Seated
  <2>3. CASE d = Template
    <3>1. Known(d)' => CanRead(d, q)'
      BY <2>3, SeatsAssumption DEF Known, CanRead, Here, Minted
    <3> QED
      BY <2>2, <2>3, <3>1, SeatsAssumption DEF Seated, Known, CanRead, Here, Minted
  <2>4. CASE d \in Diagram
    <3>1. d \in Minted /\ owner'[d] = owner[d] /\ d \in Minted'
      BY <2>1, <2>2, <2>4 DEF Seated, Minted
    <3>2. CASE d \in gone'
      BY <2>2, <2>4, <3>1, <3>2, SeatsAssumption DEF Seated, Known, Here, Minted
    <3>3. CASE d \notin gone'
      <4>1. d \in Here /\ d \in Here'
        BY <3>1, <3>3 DEF Here
      <4>2. CanRead(d, q)
        BY <2>1, <2>2, <4>1 DEF Seated, Known
      <4>3. owner'[d] = q \/ grants'[d][q] # "none"
        BY <2>4, <3>1, <4>2, SeatsAssumption DEF CanRead
      <4> QED
        BY <2>2, <3>1, <4>1, <4>3 DEF Seated, CanRead, Here, Minted
    <3> QED
      BY <3>2, <3>3
  <2> QED
    BY <2>2, <2>3, <2>4 DEF Ids, Doc
<1> QED
  BY <1>1, <1>2

\* What a session is given when it has nowhere to be may be read.
LEMMA FirstsRead ==
    \A p \in Page : \A d \in Firsts(p) : d = None \/ (d \in Doc /\ CanRead(d, p))
<1>1. ASSUME NEW p \in Page, NEW d \in Firsts(p), d # None
      PROVE  d \in Doc /\ CanRead(d, p)
  <2>1. CASE \E i \in Here : CanRead(i, p)
    BY <1>1, <2>1 DEF Firsts, Here, Minted, Doc
  <2>2. CASE ~\E i \in Here : CanRead(i, p)
    <3>1. shipped /\ d = Template
      BY <1>1, <2>2 DEF Firsts
    <3> QED
      BY <3>1 DEF Doc, CanRead
  <2> QED
    BY <2>1, <2>2
<1> QED
  BY <1>1
LEMMA FirstsThen ==
    (\A p \in Page : \A d \in Firsts(p) : d = None \/ (d \in Doc /\ CanRead(d, p)))'
  BY FirstsRead, PTL

\* The message a session reads, of a page whose socket is open.
LEMMA ReadIs ==
    ASSUME Inv, NEW p \in Page, up[p] # << >>
    PROVE  /\ Head(up[p]) \in Up /\ WellUp(Head(up[p])) /\ open[p]
           /\ Head(up[p]).cmd = "commit" => tab[p].model # None
           /\ Head(up[p]).cmd = "resume" => /\ seat[p] = None /\ Head(up[p]).diagram = tab[p].model
                                            /\ ~Virgin(tab[p])
                                            /\ \A j \in DOMAIN down[p] : down[p][j].cmd \in {"access", "error"}
<1>1. up[p] \in Seq(Up)
  BY DEF Inv, TypeOK
<1>2. Head(up[p]) = up[p][1] /\ 1 \in DOMAIN up[p] /\ Head(up[p]) \in Up
  BY <1>1
<1> QED
  BY <1>2 DEF Inv, Wire, Messages, Asked, Unnamed, Resuming, Closed

LEMMA ReadType ==
    ASSUME Inv, UNCHANGED <<shipped, grants, open, tab, edits, events, made>>,
           owner' \in [Diagram -> Page \cup {None}], gone' \subseteq Diagram, doc' \in [Doc -> SUBSET Edit],
           seat' \in [Page -> Ids], fork' \in [Page -> Diagram \cup {None}],
           down' \in [Page -> Seq(Down)], up' \in [Page -> Seq(Up)], forkOf' \subseteq Diagram
    PROVE  TypeOK'
  BY DEF Inv, TypeOK

\* A refusal.
LEMMA RefuseKeeps ==
    ASSUME Inv, NEW p \in Page, up[p] # << >>, NEW e \in Edit \cup {0}, Refuse(p, e),
           UNCHANGED <<open, tab, edits, events, made>>
    PROVE  Inv'
<1>1. PICK x : x = Error(e)
  OBVIOUS
<1>2. x \in Down /\ x.cmd = "error"
  <2>1. x.cmd = "error"
    BY <1>1 DEF Error
  <2> QED
    BY <1>1, <2>1, IsDown
<1>3. << x >> \in Seq(Down) /\ DOMAIN << x >> = {1} /\ << x >>[1] = x
  BY <1>2, OneMessage
<1>4. Answer(p, << x >>) /\ UNCHANGED <<server, forkOf>>
  BY <1>1 DEF Refuse
<1>5. TypeOK /\ Grown
  <2>1. TypeOK
    BY DEF Inv
  <2> QED
    BY <1>4, <2>1, GrownSame
<1>6. Left(p, << x >>) /\ \A q \in Page \ {p} : seat'[q] = seat[q]
  BY <1>2, <1>3, <1>4 DEF Left, server
<1>7. /\ \A q \in Page : \E ms : Told(q, ms)
      /\ down' \in [Page -> Seq(Down)] /\ up' \in [Page -> Seq(Up)]
  BY <1>3, <1>4, <1>6, AnswerTold
<1>8. (Tabs /\ Wire)'
  BY <1>5, <1>7, ToldKeeps
<1>9. TypeOK'
  BY <1>4, <1>5, <1>7 DEF TypeOK, server
<1> QED
  BY <1>4, <1>5, <1>8, <1>9, PageRest DEF Inv

\* A session that is taken to a diagram it may read, nothing else being done.
LEMMA TakeKeeps ==
    ASSUME Inv, NEW p \in Page, up[p] # << >>, NEW d \in Doc, CanRead(d, p), Take(p, d),
           UNCHANGED <<shipped, owner, gone, grants, doc, fork, forkOf, open, tab, edits, events, made>>
    PROVE  Inv'
<1>1. TypeOK /\ Grown
  <2>1. TypeOK
    BY DEF Inv
  <2> QED
    BY <2>1, GrownSame
<1>2. doc' \in [Doc -> SUBSET Edit] /\ gone' \subseteq Diagram /\ owner' \in [Diagram -> Page \cup {None}]
      /\ fork' \in [Page -> Diagram \cup {None}] /\ forkOf' \subseteq Diagram
  BY <1>1 DEF TypeOK
<1>3. /\ \A q \in Page : \E ms : Told(q, ms)
      /\ down' \in [Page -> Seq(Down)] /\ up' \in [Page -> Seq(Up)] /\ seat' \in [Page -> Ids]
      /\ seat'[p] = d /\ \A q \in Page \ {p} : seat'[q] = seat[q]
  BY <1>2, TakeTold
<1>4. (Tabs /\ Wire)'
  BY <1>1, <1>3, ToldKeeps
<1>5. TypeOK'
  BY <1>2, <1>3, ReadType
<1>6. Copies' /\ Lands'
  BY <1>1, DocsKept
<1>7. SeatsMinted' /\ SeatsMayRead'
  <2>1. Seated(p)'
    BY <1>3, SeatsAssumption DEF Seated, CanRead, Known, Here, Minted
  <2> QED
    BY <1>2, <1>3, <2>1, SeatsKept
<1> QED
  BY <1>4, <1>5, <1>6, <1>7 DEF Inv

LEMMA ReadHelloKeeps ==
    ASSUME Inv, NEW p \in Page, up[p] # << >>, NEW m \in Up, ReadHello(p, m),
           UNCHANGED <<open, tab, edits, events, made>>
    PROVE  Inv'
<1>1. CASE Refuse(p, NoEdit)
  BY <1>1, RefuseKeeps DEF NoEdit
<1>2. CASE ~Refuse(p, NoEdit)
  <2>1. PICK d \in IF Known(m.diagram) THEN {m.diagram} ELSE Firsts(p) :
            /\ d # None /\ Take(p, d) /\ ~(Known(m.diagram) /\ ~CanRead(m.diagram, p))
            /\ UNCHANGED <<shipped, owner, gone, grants, doc, fork, forkOf>>
    BY <1>2 DEF ReadHello
  <2>2. d \in Doc /\ CanRead(d, p)
    <3>1. CASE Known(m.diagram)
      BY <2>1, <3>1 DEF Known, Doc, Here, Minted
    <3>2. CASE ~Known(m.diagram)
      BY <2>1, <3>2, FirstsRead
    <3> QED
      BY <3>1, <3>2
  <2> QED
    BY <2>1, <2>2, TakeKeeps
<1> QED
  BY <1>1, <1>2

LEMMA ReadableIsDoc ==
    ASSUME NEW d, NEW p, CanRead(d, p)
    PROVE  d \in Doc
  BY DEF CanRead, Doc, Here, Minted

LEMMA ReadOpenKeeps ==
    ASSUME Inv, NEW p \in Page, up[p] # << >>, NEW m \in Up, ReadOpen(p, m),
           UNCHANGED <<open, tab, edits, events, made>>
    PROVE  Inv'
<1>1. CASE ~CanRead(m.diagram, p)
  <2>1. Refuse(p, NoEdit)
    BY <1>1 DEF ReadOpen
  <2> QED
    BY <2>1, RefuseKeeps DEF NoEdit
<1>2. CASE CanRead(m.diagram, p)
  <2>1. Take(p, m.diagram) /\ UNCHANGED <<shipped, owner, gone, grants, doc, fork, forkOf>>
    BY <1>2 DEF ReadOpen
  <2> QED
    BY <1>2, <2>1, ReadableIsDoc, TakeKeeps
<1> QED
  BY <1>1, <1>2

\* A resume is answered with a snapshot, as an open is, or finds the page in tune.
LEMMA ReadResumeKeeps ==
    ASSUME Inv, NEW p \in Page, up[p] # << >>, NEW m, m = Head(up[p]), ReadResume(p, m),
           UNCHANGED <<open, tab, edits, events, made>>
    PROVE  Inv'
<1>1. CASE ~CanRead(m.diagram, p)
  <2>1. Refuse(p, NoEdit)
    BY <1>1 DEF ReadResume
  <2> QED
    BY <2>1, RefuseKeeps DEF NoEdit
<1>2. CASE CanRead(m.diagram, p)
  <2> DEFINE d == m.diagram
  <2>1. /\ m.cmd = "resume" /\ seat' = [seat EXCEPT ![p] = d]
        /\ Answer(p, IF m.version = Cardinality(doc[d]) THEN <<[cmd |-> "sync"]>> ELSE <<Snapshot(d, p)>>)
        /\ UNCHANGED <<shipped, owner, gone, grants, doc, fork, forkOf>>
    BY <1>2 DEF ReadResume
  <2>2. d \in Doc /\ TypeOK
    BY <1>2, ReadableIsDoc DEF Inv
  <2>3. CASE m.version # Cardinality(doc[d])
    <3>1. Snapshot(d, p)' = Snapshot(d, p)
      BY <2>1 DEF Snapshot, CanWrite, CanRead, Here, Minted
    <3>2. Take(p, d)
      <4>1. Answer(p, <<Snapshot(d, p)>>)
        BY <2>1, <2>3
      <4> QED
        BY <2>1, <3>1, <4>1 DEF Take, Answer
    <3> QED
      BY <1>2, <2>1, <2>2, <3>2, TakeKeeps
  <2>4. CASE m.version = Cardinality(doc[d])
    <3>1. PICK x : x = [cmd |-> "sync"]
      OBVIOUS
    <3>2. x \in Down /\ x.cmd = "sync"
      BY <3>1, IsDown
    <3>3. << x >> \in Seq(Down) /\ DOMAIN << x >> = {1} /\ << x >>[1] = x
      BY <3>2, OneMessage
    <3>4. Answer(p, << x >>)
      BY <2>1, <2>4, <3>1
    <3>5. seat' \in [Page -> Ids] /\ seat'[p] = d /\ \A q \in Page \ {p} : seat'[q] = seat[q]
      BY <2>1, <2>2, Named DEF TypeOK
    <3>6. InTune(p, << x >>)
      <4>1. m.diagram = tab[p].model /\ ~Virgin(tab[p])
            /\ \A j \in DOMAIN down[p] : down[p][j].cmd \in {"access", "error"}
        BY <2>1, ReadIs
      <4> QED
        BY <3>2, <3>3, <3>5, <4>1 DEF InTune
    <3>7. /\ \A q \in Page : \E ms : Told(q, ms)
          /\ down' \in [Page -> Seq(Down)] /\ up' \in [Page -> Seq(Up)]
      BY <3>3, <3>4, <3>5, <3>6, AnswerTold
    <3>8. Grown
      BY <2>1, <2>2, GrownSame
    <3>9. (Tabs /\ Wire)'
      BY <3>7, <3>8, ToldKeeps
    <3>10. doc' \in [Doc -> SUBSET Edit] /\ gone' \subseteq Diagram /\ owner' \in [Diagram -> Page \cup {None}]
           /\ fork' \in [Page -> Diagram \cup {None}] /\ forkOf' \subseteq Diagram
      BY <2>1, <2>2 DEF TypeOK
    <3>11. TypeOK'
      BY <2>1, <3>5, <3>7, <3>10, ReadType
    <3>12. Copies' /\ Lands'
      BY <2>1, <3>8, DocsKept
    <3>13. SeatsMinted' /\ SeatsMayRead'
      <4>1. Seated(p)'
        BY <1>2, <2>1, <3>5, SeatsAssumption DEF Seated, CanRead, Known, Here, Minted
      <4> QED
        BY <2>1, <3>5, <3>10, <4>1, SeatsKept
    <3> QED
      BY <3>9, <3>11, <3>12, <3>13 DEF Inv
  <2> QED
    BY <2>3, <2>4
<1> QED
  BY <1>1, <1>2

\* What was drawn before the first answer becomes a diagram of its own.
LEMMA ReadCreateKeeps ==
    ASSUME Inv, NEW p \in Page, up[p] # << >>, NEW m, m = Head(up[p]), ReadCreate(p, m),
           UNCHANGED <<open, tab, edits, events, made>>
    PROVE  Inv'
<1>1. CASE Refuse(p, NoEdit)
  BY <1>1, RefuseKeeps DEF NoEdit
<1>2. CASE ~Refuse(p, NoEdit)
  <2>1. PICK d \in Diagram \ Minted :
            Mint(d, p, m.doc) /\ UNCHANGED <<shipped, gone, grants, fork, forkOf>> /\ Take(p, d)
    BY <1>2 DEF ReadCreate
  <2>2. m \in Up /\ m.cmd = "create" /\ WellUp(m) /\ m.doc \subseteq Edit /\ \A e \in m.doc : Unbound(e)
    <3>1. m \in Up /\ m.cmd = "create" /\ WellUp(m)
      BY ReadIs DEF ReadCreate
    <3> QED
      BY <3>1, UpFields DEF WellUp
  <2>3. TypeOK /\ Grown
    <3>1. TypeOK
      BY DEF Inv
    <3> QED
      BY <2>1, <3>1, GrownSame
  <2>4. d \in Doc /\ d # Template /\ d # None
    BY Named DEF Doc
  <2>5. /\ doc' \in [Doc -> SUBSET Edit] /\ owner' \in [Diagram -> Page \cup {None}]
        /\ doc'[d] = m.doc /\ \A i \in Doc \ {d} : doc'[i] = doc[i]
        /\ owner'[d] = p /\ \A i \in Diagram \ {d} : owner'[i] = owner[i]
    BY <2>1, <2>2, <2>3, <2>4 DEF TypeOK, Mint
  <2>6. /\ \A q \in Page : \E ms : Told(q, ms)
        /\ down' \in [Page -> Seq(Down)] /\ up' \in [Page -> Seq(Up)] /\ seat' \in [Page -> Ids]
        /\ seat'[p] = d /\ \A q \in Page \ {p} : seat'[q] = seat[q]
    BY <2>1, <2>4, <2>5, TakeTold
  <2>7. (Tabs /\ Wire)'
    BY <2>3, <2>6, ToldKeeps
  <2>8. gone' \subseteq Diagram /\ fork' \in [Page -> Diagram \cup {None}] /\ forkOf' \subseteq Diagram
    BY <2>1, <2>3 DEF TypeOK
  <2>9. TypeOK'
    BY <2>1, <2>5, <2>6, <2>8, ReadType
  <2>10. Copies'
    BY <2>1, <2>4, <2>5, SeatsAssumption DEF Inv, Copies, Doc
  <2>11. Lands'
    <3>1. \A i \in Doc : \A e \in doc'[i] : Fits(e, i)
      BY <2>2, <2>5 DEF Inv, Lands, Fits, Unbound
    <3>2. \A i \in Doc : \A e \in doc'[i] : Fits(e, i)'
      BY <2>3, <3>1, WellGrows
    <3> QED
      BY <3>2 DEF Lands
  <2>12. SeatsMinted' /\ SeatsMayRead'
    <3>1. Seated(p)'
      BY <2>4, <2>5, <2>6, SeatsAssumption DEF Seated, CanRead, Known, Here, Minted
    <3>2. \A i \in Minted : owner'[i] = owner[i]
      BY <2>5 DEF Minted
    <3>3. \A q \in Page : seat'[q] = seat[q] \/ seat'[q] = None \/ Seated(q)'
      BY <2>6, <3>1
    <3>4. gone \subseteq gone' /\ UNCHANGED <<shipped, grants>>
      BY <2>1
    <3> QED
      BY <2>5, <3>2, <3>3, <3>4, SeatsKept
  <2> QED
    BY <2>7, <2>9, <2>10, <2>11, <2>12 DEF Inv
<1> QED
  BY <1>1, <1>2

LEMMA ReseedsIs ==
    ASSUME TypeOK, NEW p \in Page, NEW d, Reseeds(p, d)
    PROVE  owner' \in [Diagram -> Page \cup {None}] /\ \A i \in Minted : owner'[i] = owner[i]
<1>1. CASE owner' = owner
  BY <1>1 DEF TypeOK
<1>2. CASE \E f \in Diagram \ Minted : owner' = [owner EXCEPT ![f] = p]
  BY <1>2 DEF TypeOK, Minted
<1> QED
  BY <1>1, <1>2 DEF Reseeds

\* A deletion takes the session to what it may read, or nowhere.
LEMMA ReadDeleteKeeps ==
    ASSUME Inv, NEW p \in Page, up[p] # << >>, NEW m \in Up, ReadDelete(p, m),
           UNCHANGED <<open, tab, edits, events, made>>
    PROVE  Inv'
<1>1. CASE ~CanWrite(m.diagram, p)
  <2>1. Refuse(p, NoEdit)
    BY <1>1 DEF ReadDelete
  <2> QED
    BY <2>1, RefuseKeeps DEF NoEdit
<1>2. CASE CanWrite(m.diagram, p)
  <2>1. /\ gone' = gone \cup {m.diagram} /\ Reseeds(p, m.diagram)
        /\ UNCHANGED <<shipped, grants, doc, fork, forkOf>>
    BY <1>2 DEF ReadDelete
  <2>2. PICK d \in Firsts(p)' :
            IF d # None THEN Take(p, d)
            ELSE /\ Answer(p, <<Error(NoEdit)>>)
                 /\ seat' = IF seat[p] = m.diagram THEN [seat EXCEPT ![p] = None] ELSE seat
    BY <1>2 DEF ReadDelete
  <2>3. TypeOK /\ Grown
    <3>1. TypeOK
      BY DEF Inv
    <3> QED
      BY <2>1, <3>1, GrownSame
  <2>4. /\ owner' \in [Diagram -> Page \cup {None}] /\ \A i \in Minted : owner'[i] = owner[i]
        /\ gone \subseteq gone' /\ gone' \subseteq Diagram /\ doc' \in [Doc -> SUBSET Edit]
        /\ fork' \in [Page -> Diagram \cup {None}] /\ forkOf' \subseteq Diagram
    <3>1. m.diagram \in Diagram
      BY <1>2 DEF CanWrite, Here, Minted
    <3> QED
      BY <2>1, <2>3, <3>1, ReseedsIs DEF TypeOK
  <2>5. /\ \A q \in Page : \E ms : Told(q, ms)
        /\ down' \in [Page -> Seq(Down)] /\ up' \in [Page -> Seq(Up)] /\ seat' \in [Page -> Ids]
        /\ \A q \in Page : seat'[q] = seat[q] \/ seat'[q] = None \/ Seated(q)'
    <3>1. CASE d # None
      <4>1. d \in Doc /\ CanRead(d, p)'
        BY <2>2, <3>1, FirstsThen
      <4>2. /\ \A q \in Page : \E ms : Told(q, ms)
            /\ down' \in [Page -> Seq(Down)] /\ up' \in [Page -> Seq(Up)] /\ seat' \in [Page -> Ids]
            /\ seat'[p] = d /\ \A q \in Page \ {p} : seat'[q] = seat[q]
        BY <2>2, <2>4, <3>1, <4>1, TakeTold
      <4>3. Seated(p)'
        BY <4>1, <4>2, SeatsAssumption DEF Seated, CanRead, Known, Here, Minted
      <4> QED
        BY <4>2, <4>3
    <3>2. CASE d = None
      <4>1. PICK x : x = Error(NoEdit)
        OBVIOUS
      <4>2. x \in Down /\ x.cmd = "error"
        BY <4>1, IsDown DEF Error, NoEdit
      <4>3. << x >> \in Seq(Down) /\ DOMAIN << x >> = {1} /\ << x >>[1] = x
        BY <4>2, OneMessage
      <4>4. /\ Answer(p, << x >>) /\ seat' \in [Page -> Ids] /\ seat'[p] \in {seat[p], None}
            /\ \A q \in Page \ {p} : seat'[q] = seat[q]
        BY <2>2, <2>3, <3>2, <4>1 DEF TypeOK, Ids
      <4>5. Left(p, << x >>)
        BY <4>2, <4>3, <4>4 DEF Left
      <4> QED
        BY <4>3, <4>4, <4>5, AnswerTold
    <3> QED
      BY <3>1, <3>2
  <2>6. (Tabs /\ Wire)'
    BY <2>3, <2>5, ToldKeeps
  <2>7. TypeOK'
    BY <2>1, <2>4, <2>5, ReadType
  <2>8. Copies' /\ Lands'
    BY <2>1, <2>3, DocsKept
  <2>9. SeatsMinted' /\ SeatsMayRead'
    BY <2>1, <2>4, <2>5, SeatsKept
  <2> QED
    BY <2>6, <2>7, <2>8, <2>9 DEF Inv
<1> QED
  BY <1>1, <1>2

\* A write on the template lands on a fork of it, where the session then is.
LEMMA ForksKeeps ==
    ASSUME Inv, NEW p \in Page, up[p] # << >>, NEW m, m = Head(up[p]), m.cmd = "commit",
           seat[p] = Template, ~MadeElsewhere(p, m), Forks(p, m),
           UNCHANGED <<open, tab, edits, events, made>>
    PROVE  Inv'
<1>1. PICK f \in Diagram \ Minted :
        /\ Mint(f, p, doc[Template] \cup {m.e})
        /\ seat' = [seat EXCEPT ![p] = f] /\ fork' = [fork EXCEPT ![p] = f]
        /\ forkOf' = forkOf \cup {f}
        /\ Answer(p, <<[cmd |-> "forked", diagram |-> f],
                       [cmd |-> "ack", e |-> m.e, version |-> 1, replayed |-> FALSE]>>)
        /\ UNCHANGED <<shipped, gone, grants>>
  BY DEF Forks
<1>2. m \in Up /\ WellUp(m) /\ m.e \in Edit /\ tab[p].model # None /\ Fits(m.e, m.diagram)
  <2>1. m \in Up /\ WellUp(m) /\ tab[p].model # None
    BY ReadIs
  <2> QED
    BY <2>1, UpFields DEF WellUp
<1>3. TypeOK /\ doc[Template] = {} /\ f \in Doc /\ f # Template /\ f # None
  BY Named DEF Inv, Copies, Doc
\* The page has written on the template, not on a fork of it.
<1>4. m.diagram = Template
  <2>1. fork[p] # Template
    BY <1>3, SeatsAssumption DEF TypeOK
  <2> QED
    BY <2>1 DEF MadeElsewhere
<1>5. Grown
  <2>1. edits \in Nat
    BY <1>3, SeatsAssumption DEF TypeOK
  <2> QED
    BY <1>1, <2>1 DEF Grown
<1>6. /\ doc' \in [Doc -> SUBSET Edit] /\ owner' \in [Diagram -> Page \cup {None}]
      /\ doc'[f] = {m.e} /\ \A i \in Doc \ {f} : doc'[i] = doc[i]
      /\ owner'[f] = p /\ \A i \in Diagram \ {f} : owner'[i] = owner[i]
  BY <1>1, <1>2, <1>3 DEF TypeOK, Mint
<1>7. /\ seat' \in [Page -> Ids] /\ seat'[p] = f /\ \A q \in Page \ {p} : seat'[q] = seat[q]
      /\ fork' \in [Page -> Diagram \cup {None}] /\ fork'[p] = f /\ \A q \in Page \ {p} : fork'[q] = fork[q]
      /\ forkOf' \subseteq Diagram /\ gone' \subseteq Diagram
  BY <1>1, <1>3, Named DEF TypeOK
<1>8. PICK x, y : x = [cmd |-> "forked", diagram |-> f]
                  /\ y = [cmd |-> "ack", e |-> m.e, version |-> 1, replayed |-> FALSE]
  OBVIOUS
<1>9. x \in Down /\ y \in Down /\ x.cmd = "forked" /\ x.diagram = f /\ y.cmd = "ack"
  BY <1>2, <1>8, IsDown
<1>10. << x, y >> \in Seq(Down) /\ DOMAIN << x, y >> = {1, 2} /\ << x, y >>[1] = x /\ << x, y >>[2] = y
  BY <1>9
<1>11. Forking(p, << x, y >>)
  <2>1. seat'[p] # Template
    BY <1>3, <1>7
  <2> QED
    BY <1>1, <1>2, <1>9, <1>10, <2>1 DEF Forking
<1>12. /\ \A q \in Page : \E ms : Told(q, ms)
       /\ down' \in [Page -> Seq(Down)] /\ up' \in [Page -> Seq(Up)]
  <2>1. Answer(p, << x, y >>)
    BY <1>1, <1>8
  <2> QED
    BY <1>7, <1>10, <1>11, <2>1, AnswerTold
<1>13. (Tabs /\ Wire)'
  BY <1>5, <1>12, ToldKeeps
<1>14. TypeOK'
  BY <1>1, <1>6, <1>7, <1>12, ReadType
<1>15. Copies'
  BY <1>1, <1>3, <1>6, <1>7 DEF Inv, Copies, Doc
<1>16. Lands'
  <2>1. Fits(m.e, f)'
    BY <1>1, <1>2, <1>4 DEF Fits
  <2>2. \A i \in Doc \ {f} : \A e \in doc'[i] : Fits(e, i)'
    BY <1>5, <1>6, WellGrows DEF Inv, Lands
  <2>3. \A i \in Doc : \A e \in doc'[i] : Fits(e, i)'
    BY <1>6, <2>1, <2>2
  <2> QED
    BY <2>3 DEF Lands
<1>17. SeatsMinted' /\ SeatsMayRead'
  <2>1. Seated(p)'
    BY <1>3, <1>6, <1>7, SeatsAssumption DEF Seated, CanRead, Known, Here, Minted
  <2>2. \A i \in Minted : owner'[i] = owner[i]
    BY <1>6 DEF Minted
  <2>3. \A q \in Page : seat'[q] = seat[q] \/ seat'[q] = None \/ Seated(q)'
    BY <1>7, <2>1
  <2>4. gone \subseteq gone' /\ UNCHANGED <<shipped, grants>>
    BY <1>1
  <2> QED
    BY <1>6, <2>2, <2>3, <2>4, SeatsKept
<1> QED
  BY <1>13, <1>14, <1>15, <1>16, <1>17 DEF Inv

\* The page is acked, and the others on the diagram told.
Spread(p, e, d, v) ==
    down' = [q \in Page |-> IF q = p
                THEN Append(down[q], [cmd |-> "ack", e |-> e, version |-> v, replayed |-> FALSE])
                ELSE IF seat[q] = d THEN Append(down[q], [cmd |-> "change", e |-> e, version |-> v])
                ELSE down[q]]

\* A write that lands: its page is acked, the others there are told of it.
LEMMA LandingKeeps ==
    ASSUME Inv, NEW p \in Page, up[p] # << >>, NEW m, m = Head(up[p]), m.cmd = "commit",
           NEW d, d = seat[p], d # None, d # Template, Known(d), ~MadeElsewhere(p, m), m.e \notin doc[d],
           doc' = Landed(d, m.e), NEW v \in Nat, Spread(p, m.e, d, v),
           up' = [up EXCEPT ![p] = Tail(@)],
           UNCHANGED <<shipped, owner, gone, grants, seat, fork, forkOf, open, tab, edits, events, made>>
    PROVE  Inv'
<1>1. m \in Up /\ WellUp(m) /\ m.e \in Edit /\ Fits(m.e, m.diagram)
  <2>1. m \in Up /\ WellUp(m)
    BY ReadIs
  <2> QED
    BY <2>1, UpFields DEF WellUp
<1>2. TypeOK /\ Grown /\ d \in Diagram /\ d \in Doc
  <2>1. TypeOK
    BY DEF Inv
  <2>2. d \in Diagram
    BY DEF Known, Here, Minted
  <2> QED
    BY <2>1, <2>2, GrownSame DEF Doc
<1>3. Fits(m.e, d)
  <2>1. CASE m.diagram = d
    BY <1>1, <2>1
  <2>2. CASE m.diagram = Template /\ fork[p] = d
    <3>1. d \in forkOf
      BY <2>2 DEF Inv, Copies
    <3> QED
      BY <1>1, <2>2, <3>1 DEF Fits
  <2> QED
    BY <2>1, <2>2 DEF MadeElsewhere
<1>4. doc' \in [Doc -> SUBSET Edit] /\ doc'[d] = doc[d] \cup {m.e} /\ \A i \in Doc \ {d} : doc'[i] = doc[i]
  BY <1>1, <1>2 DEF TypeOK, Landed
<1>5. PICK x, y : x = [cmd |-> "ack", e |-> m.e, version |-> v, replayed |-> FALSE]
                  /\ y = [cmd |-> "change", e |-> m.e, version |-> v]
  OBVIOUS
<1>6. x \in Down /\ y \in Down /\ x.cmd = "ack" /\ y.cmd = "change"
  BY <1>1, <1>5, IsDown
<1>7. /\ << x >> \in Seq(Down) /\ DOMAIN << x >> = {1} /\ << x >>[1] = x
      /\ << y >> \in Seq(Down) /\ DOMAIN << y >> = {1} /\ << y >>[1] = y
  BY <1>6, OneMessage
<1>8. down \in [Page -> Seq(Down)] /\ up \in [Page -> Seq(Up)]
  BY <1>2 DEF TypeOK
<1>9. ASSUME NEW q \in Page
      PROVE  \E ms \in Seq(Down) :
                /\ down'[q] = down[q] \o ms
                /\ \/ ms = << >>
                   \/ (q = p \/ seat[q] = d) /\ ms \in {<< x >>, << y >>}
  <2>1. /\ Append(down[q], x) = down[q] \o << x >> /\ Append(down[q], y) = down[q] \o << y >>
        /\ down[q] \o << >> = down[q] /\ << >> \in Seq(Down)
    <3>1. PICK z \in Seq(Down) : z = down[q]
      BY <1>8
    <3>2. Append(z, x) = z \o << x >> /\ Append(z, y) = z \o << y >>
      BY <1>6, AppendIsConcat
    <3>3. z \o << >> = z /\ << >> \in Seq(Down)
      BY NothingTold
    <3> QED
      BY <3>1, <3>2, <3>3
  <2>2. down'[q] = IF q = p THEN Append(down[q], x) ELSE IF seat[q] = d THEN Append(down[q], y) ELSE down[q]
    BY <1>5 DEF Spread
  <2> QED
    BY <1>7, <2>1, <2>2
<1>10. ASSUME NEW q \in Page
       PROVE  \E ms : Told(q, ms)
  <2>1. PICK ms \in Seq(Down) : /\ down'[q] = down[q] \o ms
                                /\ \/ ms = << >>
                                   \/ (q = p \/ seat[q] = d) /\ ms \in {<< x >>, << y >>}
    BY <1>9
  <2>2. /\ DOMAIN << >> = {} /\ seat'[q] = seat[q]
        /\ \A i \in DOMAIN ms : seat[q] = d /\ ms[i].cmd \in {"ack", "change"}
    BY <1>6, <1>7, <2>1
  <2>3. Left(q, ms)
    BY <2>2 DEF Left
  <2>4. (up[q] # << >> /\ up'[q] = Tail(up[q])) \/ up'[q] = up[q]
    BY <1>8
  <2>5. seat[q] = None => ms = << >>
    BY <2>1
  <2>6. Told(q, ms)
    BY <2>1, <2>2, <2>3, <2>4, <2>5 DEF Told
  <2> QED
    BY <2>6
<1>11. down' \in [Page -> Seq(Down)] /\ up' \in [Page -> Seq(Up)]
  <2>1. \A q \in Page : down'[q] \in Seq(Down)
    <3> SUFFICES ASSUME NEW q \in Page PROVE down'[q] \in Seq(Down)
      OBVIOUS
    <3>1. PICK ms \in Seq(Down) : down'[q] = down[q] \o ms
      BY <1>9
    <3>2. PICK z \in Seq(Down) : z = down[q]
      BY <1>8
    <3>3. z \o ms \in Seq(Down)
      BY JoinAt
    <3> QED
      BY <3>1, <3>2, <3>3
  <2>2. Tail(up[p]) \in Seq(Up)
    BY <1>8, TailAt
  <2>3. down' = [q \in Page |-> down'[q]]
    BY DEF Spread
  <2> QED
    BY <1>8, <2>1, <2>2, <2>3
<1>12. (Tabs /\ Wire)'
  BY <1>2, <1>10, ToldKeeps
<1>13. TypeOK'
  BY <1>2, <1>4, <1>11, ReadType DEF TypeOK
<1>14. Copies'
  BY <1>4 DEF Inv, Copies, Doc
<1>15. Lands'
  <2>1. \A i \in Doc : \A e \in doc'[i] : Fits(e, i)
    BY <1>3, <1>4 DEF Inv, Lands
  <2> QED
    BY <1>2, <2>1, WellGrows DEF Lands
<1>16. SeatsMinted' /\ SeatsMayRead'
  BY <1>2, SeatsKept DEF TypeOK
<1> QED
  BY <1>12, <1>13, <1>14, <1>15, <1>16 DEF Inv

LEMMA ReadCommitKeeps ==
    ASSUME Inv, NEW p \in Page, up[p] # << >>, NEW m, m = Head(up[p]), ReadCommit(p, m),
           UNCHANGED <<open, tab, edits, events, made>>
    PROVE  Inv'
<1> DEFINE d == seat[p]
<1>1. m \in Up /\ m.cmd = "commit" /\ m.e \in Edit /\ m.e \in Edit \cup {0}
  <2>1. m \in Up /\ m.cmd = "commit"
    BY ReadIs DEF ReadCommit
  <2> QED
    BY <2>1, UpFields
<1>2. CASE Refuse(p, NoEdit) \/ Refuse(p, m.e)
  BY <1>1, <1>2, RefuseKeeps DEF NoEdit
<1>3. CASE Forks(p, m) /\ d = Template /\ ~MadeElsewhere(p, m)
  BY <1>1, <1>3, ForksKeeps
\* One taken before is answered as it was.
<1>4. CASE /\ Answer(p, <<[cmd |-> "ack", e |-> m.e, version |-> Cardinality(doc[d]), replayed |-> TRUE]>>)
           /\ UNCHANGED <<server, forkOf>> /\ d # None /\ Known(d)
  <2> DEFINE v == Cardinality(doc[d])
  <2>1. TypeOK /\ Grown
    <3>1. TypeOK
      BY DEF Inv
    <3> QED
      BY <1>4, <3>1, GrownSame
  <2>2. v \in Nat
    <3>1. d \in Doc
      BY <1>4 DEF Known, Doc, Here, Minted
    <3>2. doc[d] \subseteq Edit
      BY <2>1, <3>1 DEF TypeOK
    <3> QED
      BY <3>2, EditsFinite
  <2>3. PICK x : x = [cmd |-> "ack", e |-> m.e, version |-> v, replayed |-> TRUE]
    OBVIOUS
  <2>4. Answer(p, << x >>)
    BY <1>4, <2>3
  <2> HIDE DEF v
  <2>5. x \in Down /\ x.cmd = "ack"
    BY <1>1, <2>2, <2>3, IsDown
  <2>6. << x >> \in Seq(Down) /\ DOMAIN << x >> = {1} /\ << x >>[1] = x
    BY <2>5, OneMessage
  <2>7. Left(p, << x >>) /\ \A q \in Page \ {p} : seat'[q] = seat[q]
    BY <1>4, <2>5, <2>6 DEF Left, server
  <2>8. /\ \A q \in Page : \E ms : Told(q, ms)
        /\ down' \in [Page -> Seq(Down)] /\ up' \in [Page -> Seq(Up)]
    BY <2>4, <2>6, <2>7, AnswerTold
  <2>9. (Tabs /\ Wire)'
    BY <2>1, <2>8, ToldKeeps
  <2>10. TypeOK'
    BY <1>4, <2>1, <2>8 DEF TypeOK, server
  <2> QED
    BY <1>4, <2>1, <2>9, <2>10, PageRest DEF Inv
<1>5. CASE /\ d # None /\ d # Template /\ Known(d) /\ ~MadeElsewhere(p, m) /\ m.e \notin doc[d]
           /\ doc' = Landed(d, m.e) /\ Spread(p, m.e, d, Cardinality(doc[d]) + 1)
           /\ up' = [up EXCEPT ![p] = Tail(@)]
           /\ UNCHANGED <<shipped, owner, gone, grants, seat, fork, forkOf>>
  <2>1. Cardinality(doc[d]) + 1 \in Nat
    <3>1. d \in Doc
      BY <1>5 DEF Known, Doc, Here, Minted
    <3>2. doc[d] \subseteq Edit
      BY <3>1 DEF Inv, TypeOK
    <3>3. Cardinality(doc[d]) \in Nat
      BY <3>2, EditsFinite
    <3> QED
      BY <3>3
  <2>2. PICK i, v : i = d /\ v = Cardinality(doc[d]) + 1
    OBVIOUS
  <2>3. Spread(p, m.e, i, v)
    BY <1>5, <2>2
  <2>4. /\ i = seat[p] /\ i # None /\ i # Template /\ Known(i) /\ ~MadeElsewhere(p, m) /\ m.e \notin doc[i]
        /\ doc' = Landed(i, m.e) /\ v \in Nat /\ up' = [up EXCEPT ![p] = Tail(@)]
        /\ UNCHANGED <<shipped, owner, gone, grants, seat, fork, forkOf>>
    BY <1>5, <2>1, <2>2
  <2> QED
    BY <1>1, <2>3, <2>4, LandingKeeps
<1> QED
  BY <1>2, <1>3, <1>4, <1>5 DEF ReadCommit, Spread

LEMMA ReadKeeps ==
    ASSUME Inv, NEW p \in Page, Read(p)
    PROVE  Inv'
<1>1. /\ up[p] # << >> /\ UNCHANGED <<open, tab, edits, events, made>> /\ Head(up[p]) \in Up
      /\ \/ ReadHello(p, Head(up[p])) \/ ReadOpen(p, Head(up[p])) \/ ReadResume(p, Head(up[p]))
         \/ ReadCreate(p, Head(up[p])) \/ ReadDelete(p, Head(up[p])) \/ ReadCommit(p, Head(up[p]))
  BY ReadIs DEF Read, counts
<1> QED
  BY <1>1, ReadHelloKeeps, ReadOpenKeeps, ReadResumeKeeps, ReadCreateKeeps, ReadDeleteKeeps, ReadCommitKeeps

-----------------------------------------------------------------------------
(* What happens elsewhere                                                   *)

LEMMA MovedIs ==
    ASSUME NEW q \in Page, NEW new, new[q] \in Ids, doc' \in [Doc -> SUBSET Edit]
    PROVE  /\ Moved(q, new) \in Seq(Down)
           /\ new[q] = seat[q] => Moved(q, new) = << >>
           /\ new[q] # seat[q] /\ new[q] = None => \E x : Moved(q, new) = << x >> /\ x.cmd = "error"
           /\ new[q] # seat[q] /\ new[q] # None =>
                 \E x : Moved(q, new) = << x >> /\ x.cmd = "snapshot" /\ x.diagram = new[q]
<1>1. CASE new[q] = seat[q]
  <2>1. Moved(q, new) = << >> /\ << >> \in Seq(Down)
    BY <1>1 DEF Moved
  <2> QED
    BY <1>1, <2>1
<1>2. CASE new[q] # seat[q] /\ new[q] = None
  <2>1. PICK x : x = Error(NoEdit)
    OBVIOUS
  <2>2. x \in Down /\ x.cmd = "error"
    BY <2>1, IsDown DEF Error, NoEdit
  <2>3. << x >> \in Seq(Down)
    BY <2>2, OneMessage
  <2>4. Moved(q, new) = << x >>
    BY <1>2, <2>1 DEF Moved
  <2> QED
    BY <1>2, <2>2, <2>3, <2>4
<1>3. CASE new[q] # seat[q] /\ new[q] # None
  <2>1. PICK d : d = new[q]
    OBVIOUS
  <2>2. d \in Doc
    BY <1>3, <2>1 DEF Ids
  <2>3. PICK x : x = Snapshot(d, q)'
    OBVIOUS
  <2>4. x \in Down /\ x.cmd = "snapshot" /\ x.diagram = d
    BY <2>2, <2>3, SnapshotIs
  <2>5. << x >> \in Seq(Down)
    BY <2>4, OneMessage
  <2>6. Moved(q, new) = << x >>
    BY <1>3, <2>1, <2>3 DEF Moved
  <2> QED
    BY <1>3, <2>1, <2>4, <2>5, <2>6
<1> QED
  BY <1>1, <1>2, <1>3

\* Whoever is moved is told where to, and whoever may ask again.
LEMMA MoveTold ==
    ASSUME Inv, NEW q \in Page, NEW new, new[q] \in Ids, seat'[q] = new[q], doc' \in [Doc -> SUBSET Edit],
           up'[q] = up[q], NEW after \in Seq(Down), \A i \in DOMAIN after : after[i].cmd = "access",
           seat[q] = None => new[q] = None, ~open[q] => after = << >>,
           down'[q] = down[q] \o Moved(q, new) \o after
    PROVE  (\E ms : Told(q, ms)) /\ down'[q] \in Seq(Down)
<1> DEFINE moved == Moved(q, new)
           ms    == moved \o after
<1>1. PICK z \in Seq(Down) : z = down[q]
  BY DEF Inv, TypeOK
<1>2. /\ moved \in Seq(Down)
      /\ new[q] = seat[q] => moved = << >>
      /\ new[q] # seat[q] /\ new[q] = None => \E x : moved = << x >> /\ x.cmd = "error"
      /\ new[q] # seat[q] /\ new[q] # None =>
            \E x : moved = << x >> /\ x.cmd = "snapshot" /\ x.diagram = new[q]
  BY MovedIs
<1>3. down'[q] = (z \o moved) \o after
  BY <1>1
<1> HIDE DEF moved
<1>4. down'[q] = z \o ms
  BY <1>2, <1>3, ConcatAssociative
<1>5. /\ ms \in Seq(Down)
      /\ \A i \in DOMAIN moved : i \in DOMAIN ms /\ ms[i] = moved[i]
      /\ \A i \in DOMAIN ms : i \in DOMAIN moved \/ \E j \in DOMAIN after : i = Len(moved) + j /\ ms[i] = after[j]
  <2>1. /\ \A i \in DOMAIN after : Len(moved) + i \in DOMAIN ms /\ ms[Len(moved) + i] = after[i]
        /\ \A i \in DOMAIN ms : i \in DOMAIN moved \/ \E j \in DOMAIN after : i = Len(moved) + j
        /\ ms \in Seq(Down) /\ \A i \in DOMAIN moved : i \in DOMAIN ms /\ ms[i] = moved[i]
    BY <1>2, JoinAt
  <2> HIDE DEF ms
  <2> QED
    BY <2>1
<1>6. new[q] = seat[q] => ms = after
  BY <1>2, ConcatEmptySeq
<1> HIDE DEF ms
<1>7. Left(q, ms) \/ Taken(q, ms)
  <2>1. CASE new[q] = seat[q]
    BY <1>6, <2>1 DEF Left
  <2>2. CASE new[q] # seat[q] /\ new[q] = None
    <3>1. PICK x : moved = << x >> /\ x.cmd = "error"
      BY <1>2, <2>2
    <3>2. DOMAIN << x >> = {1} /\ << x >>[1] = x
      OBVIOUS
    <3>3. \A i \in DOMAIN ms : ms[i].cmd \in {"error", "access"}
      BY <1>5, <3>1, <3>2
    <3> QED
      BY <2>2, <3>3 DEF Left
  <2>3. CASE new[q] # seat[q] /\ new[q] # None
    <3>1. PICK x : moved = << x >> /\ x.cmd = "snapshot" /\ x.diagram = new[q]
      BY <1>2, <2>3
    <3>2. DOMAIN << x >> = {1} /\ << x >>[1] = x
      OBVIOUS
    <3>3. 1 \in DOMAIN ms /\ ms[1] = x /\ \A i \in DOMAIN ms : i = 1 \/ ms[i].cmd = "access"
      BY <1>5, <3>1, <3>2
    <3> QED
      BY <3>1, <3>3 DEF Taken
  <2> QED
    BY <2>1, <2>2, <2>3
<1>8. seat[q] = None => /\ seat'[q] = None
                        /\ \A i \in DOMAIN ms : ms[i].cmd = "access"
                        /\ ~open[q] => ms = << >>
  BY <1>6
<1>9. Told(q, ms)
  BY <1>1, <1>4, <1>5, <1>7, <1>8 DEF Told
<1>10. down'[q] \in Seq(Down)
  BY <1>4, <1>5, JoinAt
<1> QED
  BY <1>9, <1>10

\* Sessions moved while nothing is drawn, written or forked, each page told.
LEMMA MovesKeep ==
    ASSUME Inv, UNCHANGED <<shipped, doc, fork, up, open, tab, edits, made, forkOf>>,
           NEW new \in [Page -> Ids], seat' = new, events' \in Nat,
           grants' \in [Diagram -> [Page -> Level]], gone' \subseteq Diagram,
           owner' \in [Diagram -> Page \cup {None}],
           \A q \in Page : (\E ms : Told(q, ms)) /\ down'[q] \in Seq(Down),
           down' = [q \in Page |-> down'[q]], SeatsMinted' /\ SeatsMayRead'
    PROVE  Inv'
<1>1. TypeOK
  BY DEF Inv
<1>2. Grown
  BY <1>1, GrownSame
<1>3. (Tabs /\ Wire)'
  BY <1>2, ToldKeeps
<1>4. Copies' /\ Lands'
  BY <1>2, DocsKept
<1>5. down' \in [Page -> Seq(Down)]
  OBVIOUS
<1>6. TypeOK'
  BY <1>1, <1>5 DEF TypeOK
<1> QED
  BY <1>3, <1>4, <1>6 DEF Inv

\* A session whose grant is revoked leaves for what it may read, or for nowhere.
LEMMA GrantKeeps ==
    ASSUME Inv, NEW d \in Diagram, NEW p \in Page, NEW l \in Level, Grant(d, p, l)
    PROVE  Inv'
<1>1. /\ events' \in Nat /\ grants' = [grants EXCEPT ![d][p] = l]
      /\ UNCHANGED <<shipped, owner, gone, doc, fork, up, open, tab, edits, made, forkOf>>
  BY DEF Grant, Happens, Inv, TypeOK
<1>2. PICK new \in [Page -> Ids] :
          /\ Leave(new) /\ seat' = new
          /\ down' = [q \in Page |-> IF open[q] THEN down[q] \o Moved(q, new) \o <<[cmd |-> "access"]>>
                                     ELSE down[q]]
  BY Zenon DEF Grant, Ids
<1>3. TypeOK /\ Closed
  BY DEF Inv, Wire
<1>4. grants' \in [Diagram -> [Page -> Level]]
  BY <1>1, <1>3 DEF TypeOK
<1>5. /\ doc' \in [Doc -> SUBSET Edit] /\ gone' \subseteq Diagram /\ owner' \in [Diagram -> Page \cup {None}]
  BY <1>1, <1>3 DEF TypeOK
<1>6. ASSUME NEW q \in Page
      PROVE  \/ new[q] = seat[q]
             \/ seat[q] # None /\ (new[q] = None \/ (new[q] \in Doc /\ Seated(q)'))
  <2>1. PICK was : was = seat[q]
    OBVIOUS
  <2>2. CASE was # None /\ ~CanRead(was, q)'
    <3>1. new[q] \in Firsts(q)'
      BY <1>2, <2>1, <2>2 DEF Leave
    <3>2. PICK i : i = new[q]
      OBVIOUS
    <3>3. i = None \/ (i \in Doc /\ CanRead(i, q)')
      BY <3>1, <3>2, FirstsThen
    <3>4. CanRead(i, q)' => Seated(q)'
      BY <1>2, <3>2, SeatsAssumption DEF Seated, CanRead, Known, Here, Minted
    <3> QED
      BY <2>1, <2>2, <3>2, <3>3, <3>4
  <2>3. CASE ~(was # None /\ ~CanRead(was, q)')
    <3>1. new[q] = was
      BY <1>2, <2>1, <2>3 DEF Leave
    <3> QED
      BY <2>1, <3>1
  <2> QED
    BY <2>2, <2>3
<1>7. ASSUME NEW q \in Page
      PROVE  (\E ms : Told(q, ms)) /\ down'[q] \in Seq(Down)
  <2>1. /\ new[q] \in Ids /\ seat'[q] = new[q] /\ up'[q] = up[q]
        /\ seat[q] = None => new[q] = None
    BY <1>1, <1>2, <1>6
  <2>2. CASE open[q]
    <3>1. PICK x : x = [cmd |-> "access"]
      OBVIOUS
    <3>2. x \in Down /\ x.cmd = "access"
      BY <3>1, IsDown
    <3>3. << x >> \in Seq(Down) /\ DOMAIN << x >> = {1} /\ << x >>[1] = x
      BY <3>2, OneMessage
    <3>4. down'[q] = down[q] \o Moved(q, new) \o << x >>
      BY <1>2, <2>2, <3>1
    <3>5. \A i \in DOMAIN << x >> : << x >>[i].cmd = "access"
      BY <3>2, <3>3
    <3> QED
      BY <1>5, <2>1, <2>2, <3>3, <3>4, <3>5, MoveTold
  <2>3. CASE ~open[q]
    <3>1. seat[q] = None /\ down[q] = << >> /\ new[q] = seat[q]
      BY <1>3, <2>1, <2>3 DEF Closed
    <3>2. << >> \in Seq(Down) /\ DOMAIN << >> = {} /\ << >> \o << >> = << >>
      BY NothingTold
    <3>3. Moved(q, new) = << >>
      BY <3>1 DEF Moved
    <3>4. down'[q] = << >>
      BY <1>2, <2>3, <3>1
    <3>5. down'[q] = down[q] \o Moved(q, new) \o << >>
      BY <3>1, <3>2, <3>3, <3>4
    <3>6. \A i \in DOMAIN << >> : << >>[i].cmd = "access"
      BY <3>2
    <3> QED
      BY <1>5, <2>1, <3>2, <3>5, <3>6, MoveTold
  <2> QED
    BY <2>2, <2>3
<1>8. down' = [q \in Page |-> down'[q]]
  BY <1>2
<1>9. ASSUME NEW q \in Page
      PROVE  Seated(q)'
  <2>1. CASE seat'[q] = None
    BY <2>1, SeatsAssumption DEF Seated
  <2>2. CASE seat'[q] = seat[q] /\ seat[q] # None
    <3>1. PICK was : was = seat[q]
      OBVIOUS
    <3>2. CanRead(was, q)'
      <4>1. new[q] = was /\ (CanRead(was, q)' \/ new[q] \in Firsts(q)')
        BY <1>2, <2>2, <3>1 DEF Leave
      <4>2. was \in Firsts(q)' => CanRead(was, q)'
        BY <2>2, <3>1, FirstsThen
      <4> QED
        BY <4>1, <4>2
    <3>3. was = seat'[q]
      BY <2>2, <3>1
    <3> QED
      BY <3>2, <3>3, SeatsAssumption DEF Seated, CanRead, Known, Here, Minted
  <2> QED
    BY <1>2, <1>6, <2>1, <2>2
<1>10. SeatsMinted' /\ SeatsMayRead'
  BY <1>9 DEF SeatsMinted, SeatsMayRead, Seated
<1> QED
  BY <1>1, <1>2, <1>4, <1>5, <1>7, <1>8, <1>10, MovesKeep

\* A session whose diagram is deleted moves to what it may read, or stays where nothing is.
LEMMA RestDeleteKeeps ==
    ASSUME Inv, NEW d \in Diagram, NEW by \in Page, RestDelete(d, by)
    PROVE  Inv'
<1>1. /\ events' \in Nat /\ gone' = gone \cup {d} /\ Reseeds(by, d)
      /\ UNCHANGED <<shipped, grants, doc, fork, up, open, tab, edits, made, forkOf>>
  BY DEF RestDelete, Happens, Inv, TypeOK
<1>2. PICK new \in [Page -> Ids] :
          /\ \A p \in Page : IF seat[p] = d /\ Firsts(p)' # {None} THEN new[p] \in Firsts(p)'
                             ELSE new[p] = seat[p]
          /\ seat' = new
          /\ down' = [q \in Page |-> down[q] \o Moved(q, new)]
  BY Zenon DEF RestDelete, Ids
<1>3. TypeOK
  BY DEF Inv
<1>4. /\ owner' \in [Diagram -> Page \cup {None}] /\ \A i \in Minted : owner'[i] = owner[i]
      /\ gone \subseteq gone' /\ gone' \subseteq Diagram /\ doc' \in [Doc -> SUBSET Edit]
      /\ grants' \in [Diagram -> [Page -> Level]]
  BY <1>1, <1>3, ReseedsIs DEF TypeOK
<1>5. ASSUME NEW q \in Page
      PROVE  new[q] = seat[q] \/ (seat[q] # None /\ (new[q] = None \/ Seated(q)'))
  <2>1. CASE seat[q] = d /\ Firsts(q)' # {None}
    <3>1. PICK i : i = new[q]
      OBVIOUS
    <3>2. i = None \/ (i \in Doc /\ CanRead(i, q)')
      BY <1>2, <2>1, <3>1, FirstsThen
    <3>3. CanRead(i, q)' => Seated(q)'
      BY <1>2, <3>1, SeatsAssumption DEF Seated, CanRead, Known, Here, Minted
    <3> QED
      BY <2>1, <3>1, <3>2, <3>3, SeatsAssumption
  <2>2. CASE ~(seat[q] = d /\ Firsts(q)' # {None})
    BY <1>2, <2>2
  <2> QED
    BY <2>1, <2>2
<1>6. ASSUME NEW q \in Page
      PROVE  (\E ms : Told(q, ms)) /\ down'[q] \in Seq(Down)
  <2>1. /\ new[q] \in Ids /\ seat'[q] = new[q] /\ up'[q] = up[q]
        /\ seat[q] = None => new[q] = None
    BY <1>1, <1>2, <1>5
  <2>2. PICK z \in Seq(Down) : z = Moved(q, new)
    BY <1>4, <2>1, MovedIs
  <2>3. PICK w \in Seq(Down) : w = down[q]
    BY <1>3 DEF TypeOK
  <2>4. << >> \in Seq(Down) /\ DOMAIN << >> = {}
    BY <2>2, NothingTold
  <2>5. (w \o z) \o << >> = w \o z
    <3>1. w \o z \in Seq(Down)
      OBVIOUS
    <3> QED
      BY <3>1, NothingTold
  <2>6. down'[q] = down[q] \o Moved(q, new) \o << >>
    BY <1>2, <2>2, <2>3, <2>5
  <2>7. \A i \in DOMAIN << >> : << >>[i].cmd = "access"
    BY <2>4
  <2> QED
    BY <1>4, <2>1, <2>4, <2>6, <2>7, MoveTold
<1>7. down' = [q \in Page |-> down'[q]]
  BY <1>2
<1>8. SeatsMinted' /\ SeatsMayRead'
  <2>1. \A q \in Page : seat'[q] = seat[q] \/ seat'[q] = None \/ Seated(q)'
    BY <1>2, <1>5
  <2> QED
    BY <1>1, <1>4, <2>1, SeatsKept
<1> QED
  BY <1>1, <1>2, <1>4, <1>6, <1>7, <1>8, MovesKeep

-----------------------------------------------------------------------------
(* The invariant                                                            *)

LEMMA FirstTab ==
    /\ NewTab(None) \in Tab /\ WellTab(NewTab(None)) /\ NewTab(None).model = None
<1>1. << >> \in Seq(Waiting) /\ None \in Ids /\ 0 \in Nat /\ {} \subseteq Edit /\ {} \subseteq Doc /\ DOMAIN << >> = {}
  BY DEF Ids
<1> HIDE DEF Waiting, Ids, Edit, Doc
<1>2. NewTab(None) \in Tab
  BY <1>1 DEF NewTab, Tab
<1>3. WellTab(NewTab(None)) /\ NewTab(None).model = None
  BY <1>1 DEF NewTab, WellTab, Outbox, Saved, Shown, Virgin
<1> QED
  BY <1>2, <1>3

LEMMA InitInv ==
    Init => Inv
<1> SUFFICES ASSUME Init PROVE Inv
  OBVIOUS
<1>1. \A p \in Page : /\ tab[p] \in Tab /\ WellTab(tab[p]) /\ tab[p].model = None /\ seat[p] = None
                      /\ fork[p] = None /\ up[p] = << >> /\ down[p] = << >> /\ ~open[p]
  BY FirstTab DEF Init
<1>2. << >> \in Seq(Up) /\ << >> \in Seq(Down) /\ << >> \in Seq(Ids) /\ Len(<< >>) = 0 /\ DOMAIN << >> = {}
  OBVIOUS
<1>3. TypeOK
  <2>1. PICK i \in Diagram, q \in Page : owner = [d \in Diagram |-> IF d = i THEN q ELSE None]
    BY DEF Init
  <2>2. owner \in [Diagram -> Page \cup {None}]
    BY <2>1
  <2>3. /\ tab \in [Page -> Tab] /\ up \in [Page -> Seq(Up)] /\ down \in [Page -> Seq(Down)]
        /\ open \in [Page -> BOOLEAN] /\ seat \in [Page -> Ids] /\ fork \in [Page -> Diagram \cup {None}]
    <3>1. None \in Ids
      BY DEF Ids
    <3> QED
      BY <1>2, <3>1, FirstTab DEF Init
  <2>4. /\ shipped \in BOOLEAN /\ gone \subseteq Diagram /\ grants \in [Diagram -> [Page -> Level]]
        /\ doc \in [Doc -> SUBSET Edit] /\ edits \in 0 .. MaxEdits /\ events \in Nat
        /\ made \in Seq(Ids) /\ Len(made) = edits /\ forkOf \subseteq Diagram
    BY <1>2, SeatsAssumption DEF Init, Level
  <2> QED
    BY <2>2, <2>3, <2>4 DEF TypeOK
<1>4. Tabs
  BY <1>1 DEF Tabs
<1>5. Wire
  <2>1. Messages /\ Forked /\ Unnamed /\ Resuming /\ Closed
    BY <1>1, <1>2 DEF Messages, Asked, Answered, Forked, Unnamed, Resuming, Closed
  <2>2. OnTemplate /\ First
    BY <1>1, <1>2, Named DEF OnTemplate, First
  <2> QED
    BY <2>1, <2>2 DEF Wire
<1>6. Copies /\ Lands
  BY <1>1 DEF Init, Copies, Lands, Doc
<1>7. SeatsMinted /\ SeatsMayRead
  BY <1>1, SeatsAssumption DEF SeatsMinted, SeatsMayRead
<1> QED
  BY <1>3, <1>4, <1>5, <1>6, <1>7 DEF Inv

LEMMA StutterKeeps ==
    Inv /\ UNCHANGED vars => Inv'
<1> SUFFICES ASSUME Inv, UNCHANGED vars PROVE Inv'
  OBVIOUS
<1>1. UNCHANGED <<server, up, down, open, tab, edits, events, made, forkOf>>
  BY DEF vars, counts
<1>2. TypeOK /\ Grown
  <2>1. TypeOK
    BY DEF Inv
  <2> QED
    BY <1>1, <2>1, GrownSame
<1>3. (Copies /\ Lands /\ SeatsMinted /\ SeatsMayRead)'
  BY <1>1, <1>2, PageRest
<1>4. TypeOK'
  BY <1>1, <1>2 DEF TypeOK, server
<1>5. \A q \in Page : \E ms : Told(q, ms)
  <2> SUFFICES ASSUME NEW q \in Page PROVE Told(q, << >>)
    BY Zenon
  <2>1. << >> \in Seq(Down) /\ DOMAIN << >> = {} /\ down[q] \o << >> = down[q]
    BY <1>2, NothingTold DEF TypeOK
  <2> QED
    BY <1>1, <2>1 DEF Told, Left, server
<1>6. (Tabs /\ Wire)'
  BY <1>1, <1>2, <1>5, ToldKeeps
<1> QED
  BY <1>3, <1>4, <1>6 DEF Inv

LEMMA NextKeeps ==
    Inv /\ [Next]_vars => Inv'
<1> SUFFICES ASSUME Inv, Next PROVE Inv'
  BY StutterKeeps
<1>1. PICK p \in Page :
        \/ Draw(p) \/ CreateDiagram(p) \/ DeleteDiagram(p) \/ ReadOnlyPulse(p)
        \/ \E d \in Doc : OpenDiagram(p, d)
        \/ Hear(p) \/ Read(p)
        \/ \E d \in Diagram : RestDelete(d, p) \/ \E l \in Level : Grant(d, p, l)
        \/ Connect(p) \/ Drop(p) \/ Reload(p)
  BY Zenon DEF Next
<1>2. CASE Draw(p)
  BY <1>2, DrawKeeps
<1>3. CASE CreateDiagram(p) \/ DeleteDiagram(p) \/ \E d \in Doc : OpenDiagram(p, d)
  BY <1>3, AskingKeeps
<1>4. CASE ReadOnlyPulse(p)
  BY <1>4, ReadOnlyPulseKeeps
<1>5. CASE Hear(p)
  BY <1>5, HearKeeps
<1>6. CASE Read(p)
  BY <1>6, ReadKeeps
<1>7. CASE \E d \in Diagram : RestDelete(d, p)
  BY <1>7, RestDeleteKeeps
<1>8. CASE \E d \in Diagram : \E l \in Level : Grant(d, p, l)
  BY <1>8, GrantKeeps
<1>9. CASE Connect(p)
  BY <1>9, ConnectKeeps
<1>10. CASE Drop(p) \/ Reload(p)
  BY <1>10, GoneKeeps
<1> QED
  BY <1>1, <1>2, <1>3, <1>4, <1>5, <1>6, <1>7, <1>8, <1>9, <1>10

\* The conjunction that each step keeps: the types, what waits and is saved on each
\* page, what is on its way to and from it, and what the server holds.
THEOREM InvariantHolds == Spec => []Inv
<1>1. Init => Inv
  BY InitInv
<1>2. Inv /\ [Next]_vars => Inv'
  BY NextKeeps
<1> QED
  BY <1>1, <1>2, PTL DEF Spec

\* Each session is on a diagram, the template or none, and each message either way
\* is one the page or the session knows, with the fields it reads (sync.js handle,
\* protocol.js handle).
THEOREM TypeCorrect == Spec => []TypeOK
<1>1. Inv => TypeOK
  BY DEF Inv
<1> QED
  BY <1>1, InvariantHolds, PTL

\* However sessions are moved and whatever is deleted, shared and revoked, none is on
\* a diagram its principal may not read (protocol.js announceAccess, retarget; B385).
THEOREM SessionsMayRead == Spec => []SeatsMayRead
<1>1. Inv => SeatsMayRead
  BY DEF Inv
<1> QED
  BY <1>1, InvariantHolds, PTL

\* A write lands on the diagram it was drawn on, on a fork of the template it was drawn
\* on, or on the diagram made of what was drawn before the first answer, whatever moves
\* the session and whatever is sent again (protocol.js madeElsewhere, forkTemplate; B393).
THEOREM WritesStayWhereMade == Spec => []WritesLandWhereMade
<1>1. Inv => WritesLandWhereMade
  BY DEF Inv, Lands, Fits, WritesLandWhereMade
<1> QED
  BY <1>1, InvariantHolds, PTL

-----------------------------------------------------------------------------
(* What each page is told of the document it shows                          *)

\* Documents there may be something of on a page or on its way.
Held == Minted \cup {Template}

\* A message that says of one edit that it is in the document.
Landing(m) == m.cmd = "change" \/ (m.cmd = "ack" /\ ~m.replayed)

\* A page that knows which diagram it shows, and has not asked for another.
Shows(t) == t.hydrated /\ t.diagram = t.model

\* The first n edits of document d, in the order they landed, are in S.
Begins(order, d, n, S) == n <= Len(order[d]) /\ \A i \in 1 .. n : order[d][i] \in S

\* A page that shows document d0 at version n0, or none, hears m and shows d1 at n1.
Leads(order, m, d0, n0, d1, n1) ==
    IF m.cmd = "snapshot"
    THEN d1 = m.diagram /\ n1 = Cardinality(m.doc) /\ Begins(order, d1, n1, m.doc)
    ELSE IF m.cmd = "forked" THEN d1 = None
    ELSE /\ d1 = d0
         /\ d0 # None => IF Landing(m)
                         THEN n1 = n0 + 1 /\ m.version = n1 /\ n1 <= Len(order[d0]) /\ m.e = order[d0][n1]
                         ELSE n1 = n0

\* Once page t has heard all of q it will show all of the diagram its session is
\* on: what it shows, and at which version, after each message is d and n.
Path(order, held, t, q, s, d, n) ==
    /\ d \in [0 .. Len(q) -> held \cup {None}] /\ n \in [0 .. Len(q) -> Nat]
    /\ Shows(t) => d[0] = t.model /\ n[0] = t.version /\ t.model \in held
                   /\ Begins(order, t.model, t.version, t.holds)
    /\ \A i \in 1 .. Len(q) : Leads(order, q[i], d[i - 1], n[i - 1], d[i], n[i])
    /\ d[Len(q)] # None /\ s # None => d[Len(q)] = s /\ n[Len(q)] = Len(order[s])
Follows(order, held, t, q, s) == \E d, n : Path(order, held, t, q, s, d, n)

\* The edits of each document, in an order they may have landed in.
History == [Doc -> Seq(Edit)]
Orders(order, docs) ==
    /\ order \in History
    /\ \A d \in Doc : /\ docs[d] = {order[d][i] : i \in 1 .. Len(order[d])}
                      /\ Cardinality(docs[d]) = Len(order[d])

Story == \E order : /\ Orders(order, doc)
                    /\ \A p \in Page : Follows(order, Held, tab[p], down[p], seat[p])

\* Documents that have only grown, at their end.
Extends(order, new, held) ==
    \A d \in held : /\ Len(order[d]) <= Len(new[d])
                    /\ \A i \in 1 .. Len(order[d]) : new[d][i] = order[d][i]

LEMMA OrderFields ==
    ASSUME NEW order \in History, NEW d \in Doc
    PROVE  order[d] \in Seq(Edit) /\ Len(order[d]) \in Nat /\ \A i \in 1 .. Len(order[d]) : order[d][i] \in Edit
<1>1. order[d] \in Seq(Edit)
  BY DEF History
<1> QED
  BY <1>1

LEMMA FirstOn ==
    ASSUME NEW order \in History, NEW new \in History, NEW held \in SUBSET Doc,
           Extends(order, new, held), NEW d \in held, NEW n \in Nat, NEW S, Begins(order, d, n, S)
    PROVE  Begins(new, d, n, S)
<1>1. Len(order[d]) \in Nat /\ Len(new[d]) \in Nat
  BY OrderFields
<1> QED
  BY <1>1 DEF Begins, Extends

\* What a message said of a document it still says.
LEMMA LeadsOn ==
    ASSUME NEW order \in History, NEW new \in History, NEW held \in SUBSET Doc,
           Extends(order, new, held), NEW m \in Down, NEW d0 \in held \cup {None}, NEW d1 \in held \cup {None},
           NEW n0 \in Nat, NEW n1 \in Nat, Leads(order, m, d0, n0, d1, n1)
    PROVE  Leads(new, m, d0, n0, d1, n1)
<1>1. None \notin held
  BY Named
<1>2. CASE m.cmd = "snapshot"
  <2>1. d1 = m.diagram /\ n1 = Cardinality(m.doc) /\ Begins(order, d1, n1, m.doc)
    BY <1>2 DEF Leads
  <2>2. d1 \in held
    BY <1>1, <1>2, <2>1, DownFields, Named
  <2>3. Begins(new, d1, n1, m.doc)
    BY <2>1, <2>2, FirstOn
  <2> QED
    BY <1>2, <2>1, <2>3 DEF Leads
<1>3. CASE m.cmd # "snapshot" /\ m.cmd # "forked" /\ d0 # None /\ Landing(m)
  <2>1. d0 \in held /\ Len(order[d0]) \in Nat /\ Len(new[d0]) \in Nat
    BY <1>3, OrderFields
  <2>2. n1 = n0 + 1 /\ n1 \in 1 .. Len(order[d0])
    BY <1>3, <2>1 DEF Leads
  <2>3. Len(order[d0]) <= Len(new[d0]) /\ new[d0][n1] = order[d0][n1]
    BY <2>1, <2>2 DEF Extends
  <2> QED
    BY <1>3, <2>1, <2>2, <2>3 DEF Leads
<1> QED
  BY <1>2, <1>3 DEF Leads

\* No message, while documents grow, none of them the one the session is on.
LEMMA PathOn ==
    ASSUME NEW order \in History, NEW new \in History,
           NEW held \in SUBSET Doc, NEW more \in SUBSET Doc, held \subseteq more, Extends(order, new, held),
           NEW t \in Tab, NEW q \in Seq(Down), NEW s, NEW then, NEW d, NEW n, Path(order, held, t, q, s, d, n),
           then = None \/ (then = s /\ (s \in held => Len(new[s]) = Len(order[s])))
    PROVE  Path(new, more, t, q, then, d, n)
<1>2. /\ d \in [0 .. Len(q) -> held \cup {None}] /\ n \in [0 .. Len(q) -> Nat]
      /\ Shows(t) => d[0] = t.model /\ n[0] = t.version /\ t.model \in held
                     /\ Begins(order, t.model, t.version, t.holds)
      /\ \A i \in 1 .. Len(q) : Leads(order, q[i], d[i - 1], n[i - 1], d[i], n[i])
      /\ d[Len(q)] # None /\ s # None => d[Len(q)] = s /\ n[Len(q)] = Len(order[s])
  BY DEF Path
<1>3. Len(q) \in Nat /\ \A i \in 1 .. Len(q) : i \in 0 .. Len(q) /\ i - 1 \in 0 .. Len(q) /\ q[i] \in Down
  OBVIOUS
<1>4. d \in [0 .. Len(q) -> more \cup {None}]
  BY <1>2
<1>5. Shows(t) => d[0] = t.model /\ n[0] = t.version /\ t.model \in more
                  /\ Begins(new, t.model, t.version, t.holds)
  BY <1>2, TabFields, FirstOn
<1>6. \A i \in 1 .. Len(q) : Leads(new, q[i], d[i - 1], n[i - 1], d[i], n[i])
  <2> SUFFICES ASSUME NEW i \in 1 .. Len(q) PROVE Leads(new, q[i], d[i - 1], n[i - 1], d[i], n[i])
    OBVIOUS
  <2>1. /\ d[i - 1] \in held \cup {None} /\ d[i] \in held \cup {None} /\ n[i - 1] \in Nat /\ n[i] \in Nat
        /\ q[i] \in Down /\ Leads(order, q[i], d[i - 1], n[i - 1], d[i], n[i])
    BY <1>2, <1>3
  <2>2. PICK m, d0, n0, d1, n1 : m = q[i] /\ d0 = d[i - 1] /\ n0 = n[i - 1] /\ d1 = d[i] /\ n1 = n[i]
    OBVIOUS
  <2>3. /\ m \in Down /\ d0 \in held \cup {None} /\ d1 \in held \cup {None} /\ n0 \in Nat /\ n1 \in Nat
        /\ Leads(order, m, d0, n0, d1, n1)
    BY <2>1, <2>2
  <2>4. Leads(new, m, d0, n0, d1, n1)
    BY <2>3, LeadsOn, Zenon
  <2> QED
    BY <2>2, <2>4
<1>7. d[Len(q)] # None /\ then # None => d[Len(q)] = then /\ n[Len(q)] = Len(new[then])
  <2>1. d[Len(q)] \in held \cup {None}
    BY <1>2, <1>3
  <2> QED
    BY <1>2, <2>1
<1> QED
  BY <1>2, <1>4, <1>5, <1>6, <1>7 DEF Path
LEMMA FollowsOn ==
    ASSUME NEW order \in History, NEW new \in History,
           NEW held \in SUBSET Doc, NEW more \in SUBSET Doc, held \subseteq more, Extends(order, new, held),
           NEW t \in Tab, NEW q \in Seq(Down), NEW s, NEW then, Follows(order, held, t, q, s),
           then = None \/ (then = s /\ (s \in held => Len(new[s]) = Len(order[s])))
    PROVE  Follows(new, more, t, q, then)
<1>1. PICK d, n : Path(order, held, t, q, s, d, n)
  BY DEF Follows
<1>2. Path(new, more, t, q, then, d, n)
  BY <1>1, PathOn
<1> QED
  BY <1>2 DEF Follows

\* One more place after those of q.
Longer(f, q, x) == [i \in 0 .. Len(q) + 1 |-> IF i = Len(q) + 1 THEN x ELSE f[i]]

\* A message more, that leads to where the session then is, or nowhere.
LEMMA PathJoins ==
    ASSUME NEW order \in History, NEW held \in SUBSET Doc, NEW t, NEW q \in Seq(Down),
           NEW s, NEW then, NEW d, NEW n, Path(order, held, t, q, s, d, n),
           NEW m \in Down, NEW d1 \in held \cup {None}, NEW n1 \in Nat,
           Leads(order, m, d[Len(q)], n[Len(q)], d1, n1),
           d1 # None /\ then # None => d1 = then /\ n1 = Len(order[then])
    PROVE  Path(order, held, t, q \o << m >>, then, Longer(d, q, d1), Longer(n, q, n1))
<1> DEFINE k  == Len(q)
           r  == q \o << m >>
           d2 == Longer(d, q, d1)
           n2 == Longer(n, q, n1)
<1>1. /\ d \in [0 .. k -> held \cup {None}] /\ n \in [0 .. k -> Nat]
      /\ Shows(t) => d[0] = t.model /\ n[0] = t.version /\ t.model \in held
                     /\ Begins(order, t.model, t.version, t.holds)
      /\ \A i \in 1 .. k : Leads(order, q[i], d[i - 1], n[i - 1], d[i], n[i])
  BY DEF Path
<1>2. k \in Nat /\ Len(r) = k + 1 /\ r[k + 1] = m /\ \A i \in 1 .. k : r[i] = q[i]
  <2>1. << m >> \in Seq(Down) /\ Len(<< m >>) = 1 /\ << m >>[1] = m
    BY OneMessage
  <2> QED
    BY <2>1
<1>3. Leads(order, m, d[k], n[k], d1, n1)
  OBVIOUS
<1>9. /\ d2 = [i \in 0 .. k + 1 |-> IF i = k + 1 THEN d1 ELSE d[i]]
      /\ n2 = [i \in 0 .. k + 1 |-> IF i = k + 1 THEN n1 ELSE n[i]]
  BY DEF Longer
<1> HIDE DEF k, r, d2, n2
<1>4. /\ d2[0] = d[0] /\ n2[0] = n[0] /\ d2[k + 1] = d1 /\ n2[k + 1] = n1
      /\ \A i \in 0 .. k : d2[i] = d[i] /\ n2[i] = n[i]
  <2>1. 0 # k + 1 /\ 0 \in 0 .. k + 1 /\ k + 1 \in 0 .. k + 1 /\ \A i \in 0 .. k : i # k + 1 /\ i \in 0 .. k + 1
    BY <1>2
  <2> QED
    BY <1>9, <2>1
<1>5. d2 \in [0 .. k + 1 -> held \cup {None}] /\ n2 \in [0 .. k + 1 -> Nat]
  <2>1. \A i \in 0 .. k + 1 : i = k + 1 \/ i \in 0 .. k
    BY <1>2
  <2> QED
    BY <1>1, <1>9, <2>1
<1>6. \A i \in 1 .. k + 1 : Leads(order, r[i], d2[i - 1], n2[i - 1], d2[i], n2[i])
  <2> SUFFICES ASSUME NEW i \in 1 .. k + 1 PROVE Leads(order, r[i], d2[i - 1], n2[i - 1], d2[i], n2[i])
    OBVIOUS
  <2>1. CASE i = k + 1
    <3>1. i - 1 = k /\ k \in 0 .. k
      BY <1>2, <2>1
    <3>2. r[i] = m /\ d2[i - 1] = d[k] /\ n2[i - 1] = n[k] /\ d2[i] = d1 /\ n2[i] = n1
      BY <1>2, <1>4, <2>1, <3>1
    <3> QED
      BY <1>3, <3>2
  <2>2. CASE i # k + 1
    <3>1. i \in 1 .. k /\ i \in 0 .. k /\ i - 1 \in 0 .. k
      BY <1>2, <2>2
    <3> QED
      BY <1>1, <1>2, <1>4, <3>1
  <2> QED
    BY <2>1, <2>2
<1>7. Path(order, held, t, r, then, d2, n2)
  BY <1>1, <1>2, <1>4, <1>5, <1>6 DEF Path
<1> QED
  BY <1>7 DEF r, d2, n2

\* One that says nothing of the document leaves the page where it was going.
LEMMA FollowsPlain ==
    ASSUME NEW order \in History, NEW held \in SUBSET Doc, NEW t, NEW q \in Seq(Down), NEW s, NEW then,
           Follows(order, held, t, q, s), NEW m \in Down, m.cmd \notin {"snapshot", "forked"}, ~Landing(m),
           then \in {s, None}
    PROVE  Follows(order, held, t, q \o << m >>, then)
<1>1. PICK d, n : Path(order, held, t, q, s, d, n)
  BY DEF Follows
<1>2. /\ d[Len(q)] \in held \cup {None} /\ n[Len(q)] \in Nat
      /\ d[Len(q)] # None /\ s # None => d[Len(q)] = s /\ n[Len(q)] = Len(order[s])
  <2>1. Len(q) \in 0 .. Len(q)
    OBVIOUS
  <2> QED
    BY <1>1, <2>1 DEF Path
<1>3. Leads(order, m, d[Len(q)], n[Len(q)], d[Len(q)], n[Len(q)])
  BY DEF Leads
<1>4. d[Len(q)] # None /\ then # None => d[Len(q)] = then /\ n[Len(q)] = Len(order[then])
  BY <1>2
<1>5. Path(order, held, t, q \o << m >>, then, Longer(d, q, d[Len(q)]), Longer(n, q, n[Len(q)]))
  BY <1>1, <1>2, <1>3, <1>4, PathJoins
<1> QED
  BY <1>5 DEF Follows

\* A snapshot of all there is takes the page to where its session is.
LEMMA FollowsSnapshot ==
    ASSUME NEW order \in History, NEW held \in SUBSET Doc, NEW t, NEW q \in Seq(Down), NEW s,
           Follows(order, held, t, q, s), NEW m \in Down, m.cmd = "snapshot", m.diagram \in held,
           m.doc = {order[m.diagram][i] : i \in 1 .. Len(order[m.diagram])},
           Cardinality(m.doc) = Len(order[m.diagram])
    PROVE  Follows(order, held, t, q \o << m >>, m.diagram)
<1>1. PICK d, n : Path(order, held, t, q, s, d, n)
  BY DEF Follows
<1>2. Len(order[m.diagram]) \in Nat
  BY OrderFields
<1>3. Begins(order, m.diagram, Cardinality(m.doc), m.doc)
  <2>1. \A i \in 1 .. Len(order[m.diagram]) : order[m.diagram][i] \in m.doc
    OBVIOUS
  <2>2. Begins(order, m.diagram, Len(order[m.diagram]), m.doc)
    BY <1>2, <2>1 DEF Begins
  <2> QED
    BY <2>2
<1>4. Leads(order, m, d[Len(q)], n[Len(q)], m.diagram, Cardinality(m.doc))
  BY <1>3 DEF Leads
<1>5. Cardinality(m.doc) \in Nat
  BY <1>2
<1>6. Path(order, held, t, q \o << m >>, m.diagram, Longer(d, q, m.diagram), Longer(n, q, Cardinality(m.doc)))
  BY <1>1, <1>4, <1>5, PathJoins
<1> QED
  BY <1>6 DEF Follows

\* A fork takes it to where it will ask for.
LEMMA FollowsForked ==
    ASSUME NEW order \in History, NEW held \in SUBSET Doc, NEW t, NEW q \in Seq(Down), NEW s, NEW then,
           Follows(order, held, t, q, s), NEW m \in Down, m.cmd = "forked", NEW a \in Down, a.cmd = "ack"
    PROVE  Follows(order, held, t, (q \o << m >>) \o << a >>, then)
<1>1. PICK d, n : Path(order, held, t, q, s, d, n)
  BY DEF Follows
<1>2. d[Len(q)] \in held \cup {None} /\ n[Len(q)] \in Nat
  <2>1. Len(q) \in 0 .. Len(q)
    OBVIOUS
  <2> QED
    BY <1>1, <2>1 DEF Path
<1>3. PICK none, zero : none = None /\ zero = 0
  OBVIOUS
<1>4. none \in held \cup {None} /\ zero \in Nat /\ (none # None /\ then # None => none = then /\ zero = Len(order[then]))
  BY <1>3
<1>5. Leads(order, m, d[Len(q)], n[Len(q)], none, zero)
  BY <1>3 DEF Leads
<1>6. Path(order, held, t, q \o << m >>, then, Longer(d, q, none), Longer(n, q, zero))
  BY <1>1, <1>4, <1>5, PathJoins, SMTT(30)
<1>10. Longer(d, q, none)[Len(q \o << m >>)] = none
  <2>1. Len(q) \in Nat /\ Len(q \o << m >>) = Len(q) + 1
    OBVIOUS
  <2>2. Len(q) + 1 \in 0 .. Len(q) + 1
    BY <2>1
  <2> QED
    BY <2>1, <2>2 DEF Longer
<1> DEFINE r  == q \o << m >>
           d2 == Longer(d, q, none)
           n2 == Longer(n, q, zero)
<1>7. r \in Seq(Down)
  BY OneMessage
<1> HIDE DEF r, d2, n2
<1>8. Leads(order, a, d2[Len(r)], n2[Len(r)], none, zero)
  BY <1>3, <1>10 DEF Leads, r, d2
<1>9. Path(order, held, t, r \o << a >>, then, Longer(d2, r, none), Longer(n2, r, zero))
  <2>1. Path(order, held, t, r, then, d2, n2)
    BY <1>6 DEF r, d2, n2
  <2> QED
    BY <1>4, <1>7, <1>8, <2>1, PathJoins
<1> QED
  BY <1>9 DEF Follows, r

\* An edit lands where the session is, and its page is told.
LEMMA FollowsLanding ==
    ASSUME NEW order \in History, NEW new \in History, NEW held \in SUBSET Doc, Extends(order, new, held),
           NEW t \in Tab, NEW q \in Seq(Down), NEW s \in held, Follows(order, held, t, q, s),
           NEW m \in Down, Landing(m), m.version = Len(order[s]) + 1,
           Len(new[s]) = Len(order[s]) + 1, m.e = new[s][Len(order[s]) + 1]
    PROVE  Follows(new, held, t, q \o << m >>, s)
<1>1. PICK d, n : Path(order, held, t, q, s, d, n)
  BY DEF Follows
<1>2. Path(new, held, t, q, None, d, n)
  BY <1>1, PathOn
<1>3. /\ d[Len(q)] \in held \cup {None} /\ n[Len(q)] \in Nat
      /\ d[Len(q)] # None /\ s # None => d[Len(q)] = s /\ n[Len(q)] = Len(order[s])
  <2>1. Len(q) \in 0 .. Len(q)
    OBVIOUS
  <2> QED
    BY <1>1, <2>1 DEF Path
<1>4. PICK n1 : n1 = IF d[Len(q)] = None THEN n[Len(q)] ELSE n[Len(q)] + 1
  OBVIOUS
<1>5. n1 \in Nat /\ s # None
  BY <1>3, <1>4, Named
<1>6. Leads(new, m, d[Len(q)], n[Len(q)], d[Len(q)], n1)
  <2>1. m.cmd \notin {"snapshot", "forked"}
    BY DEF Landing
  <2>2. CASE d[Len(q)] = None
    BY <2>1, <2>2 DEF Leads
  <2>3. CASE d[Len(q)] # None
    <3>1. d[Len(q)] = s /\ n[Len(q)] = Len(order[s]) /\ n1 = n[Len(q)] + 1
      BY <1>3, <1>4, <1>5, <2>3
    <3>2. Len(order[s]) \in Nat /\ Len(new[s]) \in Nat
      BY OrderFields
    <3>3. m.version = n1 /\ n1 <= Len(new[s]) /\ m.e = new[s][n1]
      BY <3>1, <3>2
    <3> QED
      BY <2>1, <2>3, <3>1, <3>3 DEF Leads
  <2> QED
    BY <2>2, <2>3
<1>7. d[Len(q)] # None /\ s # None => d[Len(q)] = s /\ n1 = Len(new[s])
  <2>1. Len(order[s]) \in Nat
    BY OrderFields
  <2> QED
    BY <1>3, <1>4, <2>1
<1>8. Path(new, held, t, q \o << m >>, s, Longer(d, q, d[Len(q)]), Longer(n, q, n1))
  BY <1>2, <1>3, <1>5, <1>6, <1>7, PathJoins
<1> QED
  BY <1>8 DEF Follows

\* A page that shows what it showed, with more of its own.
LEMMA FollowsShown ==
    ASSUME NEW order, NEW held, NEW t, NEW u, NEW q, NEW s, Follows(order, held, t, q, s),
           Shows(u) => Shows(t) /\ u.model = t.model /\ u.version = t.version /\ t.holds \subseteq u.holds
    PROVE  Follows(order, held, u, q, s)
<1>1. PICK d, n : Path(order, held, t, q, s, d, n)
  BY DEF Follows
<1>2. Path(order, held, u, q, s, d, n)
  <2>1. Shows(u) => d[0] = u.model /\ n[0] = u.version /\ u.model \in held
                    /\ Begins(order, u.model, u.version, u.holds)
    BY <1>1 DEF Path, Begins
  <2> QED
    BY <1>1, <2>1 DEF Path
<1> QED
  BY <1>2 DEF Follows

\* A page that has heard the first message, and shows what it led to, if it shows anything.
LEMMA FollowsTail ==
    ASSUME NEW order, NEW held, NEW t, NEW u, NEW q \in Seq(Down), q # << >>, NEW s, NEW d, NEW n,
           Path(order, held, t, q, s, d, n),
           Shows(u) => d[1] = u.model /\ n[1] = u.version /\ u.model \in held
                       /\ Begins(order, u.model, u.version, u.holds)
    PROVE  Follows(order, held, u, Tail(q), s)
<1> DEFINE k  == Len(q) - 1
           r  == Tail(q)
           d2 == [i \in 0 .. k |-> d[i + 1]]
           n2 == [i \in 0 .. k |-> n[i + 1]]
<1>1. /\ d \in [0 .. Len(q) -> held \cup {None}] /\ n \in [0 .. Len(q) -> Nat]
      /\ \A i \in 1 .. Len(q) : Leads(order, q[i], d[i - 1], n[i - 1], d[i], n[i])
      /\ d[Len(q)] # None /\ s # None => d[Len(q)] = s /\ n[Len(q)] = Len(order[s])
  BY DEF Path
<1>2. k \in Nat /\ Len(q) = k + 1 /\ Len(r) = k /\ \A i \in 1 .. k : r[i] = q[i + 1]
  OBVIOUS
<1> HIDE DEF k, r
<1>3. \A i \in 0 .. k : i + 1 \in 0 .. k + 1 /\ d2[i] = d[i + 1] /\ n2[i] = n[i + 1]
  BY <1>2
<1>4. d2 \in [0 .. k -> held \cup {None}] /\ n2 \in [0 .. k -> Nat]
  BY <1>1, <1>2, <1>3
<1> HIDE DEF d2, n2
<1>5. d2[0] = d[1] /\ n2[0] = n[1] /\ d2[k] = d[k + 1] /\ n2[k] = n[k + 1]
  <2>1. 0 \in 0 .. k /\ k \in 0 .. k /\ 0 + 1 = 1
    BY <1>2
  <2> QED
    BY <1>3, <2>1
<1>6. \A i \in 1 .. k : Leads(order, r[i], d2[i - 1], n2[i - 1], d2[i], n2[i])
  <2> SUFFICES ASSUME NEW i \in 1 .. k PROVE Leads(order, r[i], d2[i - 1], n2[i - 1], d2[i], n2[i])
    OBVIOUS
  <2>1. i - 1 \in 0 .. k /\ i \in 0 .. k /\ i + 1 \in 1 .. Len(q) /\ (i - 1) + 1 = i /\ (i + 1) - 1 = i
    BY <1>2
  <2>2. Leads(order, q[i + 1], d[(i + 1) - 1], n[(i + 1) - 1], d[i + 1], n[i + 1])
    BY <1>1, <2>1
  <2>3. r[i] = q[i + 1] /\ d2[i - 1] = d[i] /\ n2[i - 1] = n[i] /\ d2[i] = d[i + 1] /\ n2[i] = n[i + 1]
    BY <1>2, <1>3, <2>1
  <2> QED
    BY <2>1, <2>2, <2>3
<1>7. Path(order, held, u, r, s, d2, n2)
  BY <1>1, <1>2, <1>4, <1>5, <1>6 DEF Path
<1> QED
  BY <1>7 DEF Follows, r

-----------------------------------------------------------------------------
(* What a page shows after each thing it does                               *)

\* The same picture.
Alike(t, u) ==
    /\ u.hydrated = t.hydrated /\ u.diagram = t.diagram /\ u.model = t.model
    /\ u.version = t.version /\ u.holds = t.holds

LEMMA PersistAlike ==
    ASSUME NEW t \in Tab
    PROVE  Persist(t) \in Tab /\ Alike(t, Persist(t))
  BY DEF Persist, Tab, Alike

LEMMA DrainAlike ==
    ASSUME NEW t \in Tab, NEW isOpen \in BOOLEAN
    PROVE  Alike(t, Drain(t, isOpen).t)
<1>1. CASE ~isOpen \/ ~t.mayWrite
  BY <1>1 DEF Drain, Alike
<1>2. CASE ~(~isOpen \/ ~t.mayWrite)
  <2> DEFINE marked == [i \in DOMAIN t.outbox |-> [t.outbox[i] EXCEPT !.sent = TRUE]]
             u      == [t EXCEPT !.outbox = marked]
  <2>1. Drain(t, isOpen).t = u
    BY <1>2 DEF Drain, Tab
  <2> HIDE DEF marked
  <2>2. Alike(t, u)
    BY DEF Tab, Alike
  <2> QED
    BY <2>1, <2>2
<1> QED
  BY <1>1, <1>2

LEMMA ResyncAlike ==
    ASSUME NEW t \in Tab, NEW isOpen \in BOOLEAN
    PROVE  Resync(t, isOpen).t \in Tab /\ Alike(t, Resync(t, isOpen).t)
<1>1. CASE ~t.hydrated \/ ~isOpen \/ t.resync
  BY <1>1 DEF Resync, Alike
<1>2. CASE ~(~t.hydrated \/ ~isOpen \/ t.resync)
  <2>1. Resync(t, isOpen).t = [t EXCEPT !.resync = TRUE, !.expect = TRUE]
    BY <1>2 DEF Resync
  <2> QED
    BY <2>1 DEF Tab, Alike
<1> QED
  BY <1>1, <1>2

\* A page that hears of nothing that landed shows what it showed.
LEMMA PlainAlike ==
    ASSUME NEW t \in Tab, NEW m \in Down, m.cmd \in {"sync", "access", "error"}
    PROVE  Alike(t, Heard(t, m).t)
<1>1. CASE m.cmd = "sync"
  <2> DEFINE marked == [i \in DOMAIN t.outbox |-> [t.outbox[i] EXCEPT !.sent = FALSE]]
             u      == [t EXCEPT !.outbox = marked]
  <2>1. Heard(t, m) = Drain(u, TRUE)
    BY <1>1 DEF Heard, OnSync
  <2>2. marked \in Seq(Waiting)
    BY TabFields, MarkedIs
  <2> HIDE DEF marked
  <2>3. u \in Tab /\ Alike(t, u)
    BY <2>2 DEF Tab, Alike
  <2> HIDE DEF u
  <2>4. Alike(u, Drain(u, TRUE).t)
    BY <2>3, DrainAlike
  <2> QED
    BY <2>1, <2>3, <2>4 DEF Alike
<1>2. CASE m.cmd = "access"
  BY <1>2, ResyncAlike DEF Heard
<1>3. CASE m.cmd = "error"
  <2> DEFINE kept == Without(t.outbox, {m.e})
             u    == [t EXCEPT !.outbox = kept]
  <2>1. Heard(t, m) = IF m.e \in Mine(t.outbox) THEN Resync(Persist(u), TRUE) ELSE [t |-> t, out |-> <<>>]
    BY <1>3 DEF Heard, OnError
  <2>2. kept \in Seq(Waiting)
    BY TabFields, WithoutMembers
  <2> HIDE DEF kept
  <2>3. u \in Tab /\ Alike(t, u)
    BY <2>2 DEF Tab, Alike
  <2> HIDE DEF u
  <2>4. Persist(u) \in Tab /\ Alike(u, Persist(u))
    BY <2>3, PersistAlike
  <2>5. Alike(Persist(u), Resync(Persist(u), TRUE).t)
    BY <2>4, ResyncAlike
  <2>6. Alike(t, t) /\ Alike(t, Resync(Persist(u), TRUE).t)
    BY <2>3, <2>4, <2>5 DEF Alike
  <2>7. [t |-> t, out |-> <<>>].t = t
    OBVIOUS
  <2>8. CASE m.e \in Mine(t.outbox)
    BY <2>1, <2>6, <2>8
  <2>9. CASE m.e \notin Mine(t.outbox)
    <3>1. Heard(t, m) = [t |-> t, out |-> <<>>]
      BY <2>1, <2>9
    <3>2. Heard(t, m).t = t
      BY <3>1
    <3> QED
      BY <2>6, <3>2
  <2> QED
    BY <2>8, <2>9
<1> QED
  BY <1>1, <1>2, <1>3

\* An ack: the edit is in the document, at the version it says, unless it was before.
LEMMA AckShows ==
    ASSUME NEW t \in Tab, NEW m \in Down, m.cmd = "ack"
    PROVE  LET u == Heard(t, m).t
           IN  /\ u.hydrated = t.hydrated /\ u.diagram = t.diagram /\ u.model = t.model
               /\ u.version = (IF m.replayed THEN t.version ELSE m.version)
               /\ u.holds = (IF m.replayed THEN t.holds ELSE t.holds \cup {m.e})
<1> DEFINE holds   == IF m.replayed THEN t.holds ELSE t.holds \cup {m.e}
           version == IF m.replayed THEN t.version ELSE m.version
           kept    == Without(t.outbox, {m.e})
           w       == [t EXCEPT !.outbox = kept, !.holds = holds, !.version = version]
           taken   == Persist(w)
           asked   == Resync(taken, TRUE)
<1>1. Heard(t, m) = IF m.replayed /\ m.e \in Mine(t.outbox) THEN Then(asked, Drain(asked.t, TRUE))
                    ELSE Drain(taken, TRUE)
  BY Zenon DEF OnAck, Heard
<1>2. holds \in SUBSET Edit /\ version \in Nat /\ kept \in Seq(Waiting)
  BY DownFields, TabFields, WithoutMembers
<1> HIDE DEF kept
<1>9. PICK h, v : h = holds /\ v = version
  OBVIOUS
<1> HIDE DEF holds, version
<1>3. /\ w \in Tab /\ w.hydrated = t.hydrated /\ w.diagram = t.diagram /\ w.model = t.model
      /\ w.version = version /\ w.holds = holds
  BY <1>2 DEF Tab
<1> HIDE DEF w
<1>4. taken \in Tab /\ Alike(w, taken)
  BY <1>3, PersistAlike
<1> HIDE DEF taken
<1>5. asked.t \in Tab /\ Alike(taken, asked.t)
  BY <1>4, ResyncAlike
<1>6. Alike(taken, Drain(taken, TRUE).t)
  BY <1>4, DrainAlike
<1> HIDE DEF asked
<1>7. Alike(asked.t, Drain(asked.t, TRUE).t) /\ Then(asked, Drain(asked.t, TRUE)).t = Drain(asked.t, TRUE).t
  BY <1>5, DrainAlike DEF Then
<1>8. Alike(w, Heard(t, m).t)
  BY <1>1, <1>4, <1>5, <1>6, <1>7 DEF Alike
<1>10. /\ Heard(t, m).t.hydrated = t.hydrated /\ Heard(t, m).t.diagram = t.diagram /\ Heard(t, m).t.model = t.model
       /\ Heard(t, m).t.version = version /\ Heard(t, m).t.holds = holds
  BY <1>3, <1>8 DEF Alike
<1> QED
  BY <1>10 DEF holds, version

\* A change: it is the next one, or it is ignored, or the document is fetched.
LEMMA ChangeShows ==
    ASSUME NEW t \in Tab, NEW m \in Down, m.cmd = "change"
    PROVE  LET u == Heard(t, m).t
           IN  /\ u.hydrated = t.hydrated /\ u.diagram = t.diagram /\ u.model = t.model
               /\ m.version = t.version + 1 => u.version = m.version /\ u.holds = t.holds \cup {m.e}
<1>1. Heard(t, m) = OnChange(t, m)
  BY DEF Heard
<1>2. m.e \in Edit /\ m.version \in Nat /\ t.version \in Nat /\ t.holds \subseteq Edit
  BY DownFields, TabFields
<1>3. CASE m.version - 1 < t.version
  <2>1. Heard(t, m).t = t
    BY <1>1, <1>3 DEF OnChange
  <2> QED
    BY <1>2, <1>3, <2>1
<1>4. CASE m.version - 1 > t.version
  <2>3. ~(m.version - 1 < t.version)
    BY <1>2, <1>4
  <2>1. Heard(t, m) = Resync(t, TRUE)
    BY <1>1, <1>4, <2>3, Zenon DEF OnChange
  <2>2. Alike(t, Heard(t, m).t)
    BY <2>1, ResyncAlike
  <2> QED
    BY <1>2, <1>4, <2>2 DEF Alike
<1>5. CASE m.version - 1 = t.version
  <2> DEFINE u == [t EXCEPT !.holds = t.holds \cup {m.e}, !.version = m.version]
  <2>3. ~(m.version - 1 < t.version) /\ ~(m.version - 1 > t.version)
    BY <1>2, <1>5
  <2>4. Heard(t, m) = [t |-> u, out |-> <<>>]
    BY <1>1, <2>3, Zenon DEF OnChange
  <2>1. Heard(t, m).t = u
    BY <2>4
  <2>2. /\ u.hydrated = t.hydrated /\ u.diagram = t.diagram /\ u.model = t.model
        /\ u.version = m.version /\ u.holds = t.holds \cup {m.e}
    BY DEF Tab
  <2> QED
    BY <2>1, <2>2
<1> QED
  BY <1>2, <1>3, <1>4, <1>5

\* A snapshot is shown, unless what was drawn before it goes to a diagram of its own.
LEMMA SnapshotShows ==
    ASSUME NEW t \in Tab, NEW m \in Down, WellTab(t), m.cmd = "snapshot"
    PROVE  LET u == Heard(t, m).t
           IN  \/ ~Shows(u)
               \/ u.model = m.diagram /\ u.version = Cardinality(m.doc) /\ m.doc \subseteq u.holds
<1>1. Heard(t, m) = OnSnapshot(t, m)
  BY DEF Heard
<1>2. CASE ~t.expect /\ ~t.hydrated /\ t.holds # {}
  <2> DEFINE v == [t EXCEPT !.expect = TRUE]
  <2>1. Heard(t, m).t = v
    BY <1>1, <1>2 DEF OnSnapshot
  <2>2. v.hydrated = t.hydrated
    BY DEF Tab
  <2> QED
    BY <1>2, <2>1, <2>2 DEF Shows
<1>3. CASE ~(~t.expect /\ ~t.hydrated /\ t.holds # {})
  <2> DEFINE switched == t.hydrated /\ t.diagram # m.diagram
             outbox   == IF switched THEN << >> ELSE Restored(t, m.diagram)
             loaded   == Loaded(t, m, outbox)
             page     == IF switched THEN Persist(loaded) ELSE loaded
  <2>1. Heard(t, m) = Drain(page, TRUE)
    BY <1>1, <1>3 DEF OnSnapshot
  <2>2. /\ outbox \in Seq(Waiting)
        /\ \A i \in DOMAIN outbox : outbox[i].diagram = m.diagram /\ Fits(outbox[i].e, m.diagram)
    <3>1. CASE switched
      <4>1. outbox = << >> /\ << >> \in Seq(Waiting) /\ DOMAIN << >> = {}
        BY <3>1
      <4> QED
        BY <4>1
    <3>2. CASE ~switched
      <4>1. outbox = Restored(t, m.diagram) /\ m.diagram \in Doc /\ (t.hydrated => t.diagram = m.diagram)
        BY <3>2, DownFields
      <4> QED
        BY <4>1, RestoredFits
    <3> QED
      BY <3>1, <3>2
  <2> HIDE DEF outbox
  <2>3. loaded \in Tab
    <3>1. Saved(t)
      BY DEF WellTab
    <3> QED
      BY <2>2, <3>1, LoadedSound
  <2>4. /\ loaded.model = m.diagram /\ loaded.version = Cardinality(m.doc)
        /\ m.doc \subseteq loaded.holds
    BY DEF Loaded, Tab
  <2> HIDE DEF loaded, switched
  <2>5. page \in Tab /\ Alike(loaded, page)
    <3>1. Alike(loaded, loaded)
      BY DEF Alike
    <3> QED
      BY <2>3, <3>1, PersistAlike
  <2> HIDE DEF page
  <2>6. Alike(page, Drain(page, TRUE).t)
    BY <2>5, DrainAlike
  <2> QED
    BY <2>1, <2>4, <2>5, <2>6 DEF Alike
<1> QED
  BY <1>2, <1>3

\* A page that has heard of its fork shows what it showed, and is no longer on it.
LEMMA ForkedShows ==
    ASSUME NEW t \in Tab, NEW m \in Down, m.cmd = "forked", t.model = Template
    PROVE  ~Shows(Heard(t, m).t)
<1> DEFINE u == [t EXCEPT !.diagram = m.diagram, !.outbox = <<>>, !.expect = TRUE]
<1>1. Heard(t, m).t = Persist(u)
  BY DEF Heard, OnForked
<1>2. m.diagram \in Diagram /\ m.diagram \in Ids /\ m.diagram # Template
  BY DownFields, Named DEF Ids, Doc
<1>3. u \in Tab /\ u.model = Template /\ u.diagram = m.diagram
  <2>1. << >> \in Seq(Waiting)
    OBVIOUS
  <2> QED
    BY <1>2, <2>1 DEF Tab
<1> HIDE DEF u
<1>4. Alike(u, Persist(u))
  BY <1>3, PersistAlike
<1> QED
  BY <1>1, <1>2, <1>3, <1>4 DEF Alike, Shows

\* What a page shows after a message is what its path said.
LEMMA HeardShows ==
    ASSUME NEW order \in History, NEW held \in SUBSET Doc, NEW t \in Tab, WellTab(t), NEW m \in Down,
           m.cmd = "forked" => t.model = Template,
           NEW d0, NEW n0, NEW d1 \in held \cup {None}, NEW n1, Leads(order, m, d0, n0, d1, n1),
           Shows(t) => d0 = t.model /\ n0 = t.version /\ t.model \in held
                       /\ Begins(order, t.model, t.version, t.holds)
    PROVE  LET u == Heard(t, m).t
           IN  Shows(u) => d1 = u.model /\ n1 = u.version /\ u.model \in held
                           /\ Begins(order, u.model, u.version, u.holds)
<1> DEFINE u == Heard(t, m).t
<1>1. SUFFICES ASSUME Shows(u)
               PROVE  d1 = u.model /\ n1 = u.version /\ u.model \in held
                      /\ Begins(order, u.model, u.version, u.holds)
  OBVIOUS
<1> HIDE DEF u
<1>2. m.cmd \in {"snapshot", "sync", "forked", "ack", "change", "access", "error"} /\ None \notin held
  BY DownFields, Named
<1>3. CASE m.cmd = "snapshot"
  <2>1. u.model = m.diagram /\ u.version = Cardinality(m.doc) /\ m.doc \subseteq u.holds
    BY <1>1, <1>3, SnapshotShows DEF u
  <2>2. d1 = m.diagram /\ n1 = Cardinality(m.doc) /\ Begins(order, d1, n1, m.doc)
    BY <1>3 DEF Leads
  <2>3. m.diagram \in held
    BY <1>2, <1>3, <2>2, DownFields, Named
  <2> QED
    BY <2>1, <2>2, <2>3 DEF Begins
<1>4. CASE m.cmd = "forked"
  BY <1>1, <1>4, ForkedShows DEF u
<1>5. CASE m.cmd \in {"sync", "access", "error"}
  <2>1. Alike(t, u)
    BY <1>5, PlainAlike DEF u
  <2>2. Shows(t) /\ t.model # None
    <3>1. Shows(t)
      BY <1>1, <2>1 DEF Alike, Shows
    <3> QED
      BY <1>2, <3>1
  <2>3. d1 = d0 /\ n1 = n0
    BY <1>5, <2>2 DEF Leads, Landing
  <2> QED
    BY <2>1, <2>2, <2>3 DEF Alike
<1>6. CASE m.cmd \in {"ack", "change"} /\ Landing(m)
  <2>1. u.hydrated = t.hydrated /\ u.diagram = t.diagram /\ u.model = t.model
    BY <1>6, AckShows, ChangeShows DEF u
  <2>2. Shows(t) /\ t.model # None /\ t.model \in Doc
    <3>1. Shows(t)
      BY <1>1, <2>1 DEF Shows
    <3> QED
      BY <1>2, <3>1
  <2>3. d1 = d0 /\ n1 = n0 + 1 /\ m.version = n1 /\ n1 <= Len(order[d0]) /\ m.e = order[d0][n1]
    BY <1>6, <2>2 DEF Leads
  <2>4. m.version = t.version + 1 /\ t.version \in Nat
    BY <2>2, <2>3, TabFields
  <2>5. u.version = m.version /\ u.holds = t.holds \cup {m.e}
    <3>1. m.cmd = "ack" => ~m.replayed
      BY <1>6 DEF Landing
    <3> QED
      BY <1>6, <2>4, <3>1, AckShows, ChangeShows DEF u
  <2>6. Begins(order, u.model, u.version, u.holds)
    <3>1. \A i \in 1 .. n1 : i \in 1 .. t.version \/ i = n1
      BY <2>3, <2>4
    <3>2. \A i \in 1 .. t.version : order[t.model][i] \in t.holds
      BY <2>2 DEF Begins
    <3>3. order[t.model][n1] = m.e /\ n1 <= Len(order[t.model])
      BY <2>2, <2>3
    <3>4. \A i \in 1 .. n1 : order[t.model][i] \in u.holds
      BY <2>5, <3>1, <3>2, <3>3
    <3>5. u.version = n1
      BY <2>3, <2>5
    <3> QED
      BY <2>1, <3>3, <3>4, <3>5 DEF Begins
  <2> QED
    BY <2>1, <2>2, <2>3, <2>5, <2>6
<1>7. CASE m.cmd = "ack" /\ ~Landing(m)
  <2>1. m.replayed
    BY <1>7 DEF Landing
  <2>2. Alike(t, u)
    BY <1>7, <2>1, AckShows DEF u, Alike
  <2>3. Shows(t) /\ t.model # None
    <3>1. Shows(t)
      BY <1>1, <2>2 DEF Alike, Shows
    <3> QED
      BY <1>2, <3>1
  <2>4. d1 = d0 /\ n1 = n0
    BY <1>7, <2>3 DEF Leads
  <2> QED
    BY <2>2, <2>3, <2>4 DEF Alike
<1> QED
  BY <1>2, <1>3, <1>4, <1>5, <1>6, <1>7 DEF Landing

-----------------------------------------------------------------------------
(* What a page does leaves it where it was going                            *)

\* A page resumes at the version it shows.
Recalls == \A p \in Page : \A i \in DOMAIN up[p] :
               up[p][i].cmd = "resume" => up[p][i].version = tab[p].version
Tale == Story /\ Recalls

\* Shows no more than it did, or more of its own.
StillShows(t, u) == Shows(u) => /\ Shows(t) /\ u.model = t.model /\ u.version = t.version
                           /\ t.holds \subseteq u.holds

LEMMA DrainOut ==
    ASSUME NEW t \in Tab, NEW isOpen \in BOOLEAN
    PROVE  /\ Drain(t, isOpen).out \in Seq(Up)
           /\ \A i \in DOMAIN Drain(t, isOpen).out : Drain(t, isOpen).out[i].cmd = "commit"
<1>1. CASE ~isOpen \/ ~t.mayWrite
  <2>1. Drain(t, isOpen).out = << >>
    BY <1>1 DEF Drain
  <2>2. << >> \in Seq(Up) /\ DOMAIN << >> = {}
    OBVIOUS
  <2> QED
    BY <2>1, <2>2
<1>2. CASE ~(~isOpen \/ ~t.mayWrite)
  <2> DEFINE still  == {m \in ToSet(t.outbox) : ~m.sent}
             unsent == Within(t.outbox, still)
             out    == [i \in DOMAIN unsent |-> [cmd |-> "commit", e |-> unsent[i].e, diagram |-> unsent[i].diagram]]
  <2>1. Drain(t, isOpen).out = out
    BY <1>2 DEF Drain
  <2>2. unsent \in Seq(Waiting)
    BY TabFields, WithinMembers
  <2> HIDE DEF unsent
  <2>3. \A i \in DOMAIN unsent : unsent[i].e \in Edit /\ unsent[i].diagram \in Doc
    BY <2>2, WaitingFields
  <2>4. \A i \in DOMAIN out : out[i] \in Up /\ out[i].cmd = "commit"
    BY <2>3, IsUp
  <2>5. DOMAIN out = 1 .. Len(unsent) /\ Len(unsent) \in Nat
    BY <2>2
  <2>6. out = [i \in 1 .. Len(unsent) |-> out[i]]
    BY <2>5
  <2> HIDE DEF out
  <2>7. out \in Seq(Up)
    BY <2>4, <2>5, <2>6
  <2> QED
    BY <2>1, <2>4, <2>7
<1> QED
  BY <1>1, <1>2

LEMMA RecallsSpeech ==
    ASSUME TypeOK, Recalls, NEW p \in Page, NEW u, tab' = [tab EXCEPT ![p] = u],
           NEW out \in Seq(Up), up' = [up EXCEPT ![p] = up[p] \o out],
           (\E i \in DOMAIN up[p] : up[p][i].cmd = "resume") => u.version = tab[p].version,
           \A i \in DOMAIN out : out[i].cmd = "resume" => out[i].version = u.version
    PROVE  Recalls'
<1>1. tab \in [Page -> Tab] /\ up \in [Page -> Seq(Up)]
  BY DEF TypeOK
<1>2. /\ tab'[p] = u /\ up'[p] = up[p] \o out
      /\ \A q \in Page \ {p} : tab'[q] = tab[q] /\ up'[q] = up[q]
  BY <1>1
<1>3. PICK x \in Seq(Up) : x = up[p]
  BY <1>1
<1>4. /\ \A i \in DOMAIN x : (x \o out)[i] = x[i]
      /\ \A i \in DOMAIN out : (x \o out)[Len(x) + i] = out[i]
      /\ \A i \in DOMAIN (x \o out) : i \in DOMAIN x \/ \E j \in DOMAIN out : i = Len(x) + j
  BY JoinAt
<1>5. PICK y : y = x \o out
  OBVIOUS
<1>6. \A i \in DOMAIN y : y[i].cmd = "resume" => y[i].version = u.version
  <2> SUFFICES ASSUME NEW i \in DOMAIN y, y[i].cmd = "resume" PROVE y[i].version = u.version
    OBVIOUS
  <2>1. CASE i \in DOMAIN x
    <3>1. y[i] = x[i] /\ x[i].version = tab[p].version
      BY <1>3, <1>4, <1>5, <2>1 DEF Recalls
    <3> QED
      BY <1>3, <2>1, <3>1
  <2>2. CASE i \notin DOMAIN x
    <3>1. PICK j \in DOMAIN out : y[i] = out[j]
      BY <1>4, <1>5, <2>2
    <3> QED
      BY <3>1
  <2> QED
    BY <2>1, <2>2
<1>7. \A q \in Page : \A i \in DOMAIN up'[q] : up'[q][i].cmd = "resume" => up'[q][i].version = tab'[q].version
  BY <1>2, <1>3, <1>5, <1>6 DEF Recalls
<1> QED
  BY <1>7 DEF Recalls

LEMMA SpeechTells ==
    ASSUME TypeOK, Tale, NEW p \in Page, NEW u, tab' = [tab EXCEPT ![p] = u],
           NEW out \in Seq(Up), up' = [up EXCEPT ![p] = up[p] \o out],
           StillShows(tab[p], u), u.version = tab[p].version,
           \A i \in DOMAIN out : out[i].cmd = "resume" => out[i].version = u.version,
           UNCHANGED <<doc, owner, down, seat>>
    PROVE  Tale'
<1>1. tab \in [Page -> Tab]
  BY DEF TypeOK
<1>2. Recalls'
  BY RecallsSpeech DEF Tale
<1>3. PICK order : Orders(order, doc) /\ \A q \in Page : Follows(order, Held, tab[q], down[q], seat[q])
  BY DEF Tale, Story
<1>4. Orders(order, doc)'
  BY <1>3 DEF Orders
<1>5. ASSUME NEW q \in Page
      PROVE  Follows(order, Held, tab[q], down[q], seat[q])'
  <2>1. PICK held : held = Held
    OBVIOUS
  <2>2. Held' = held
    BY <2>1 DEF Held, Minted
  <2>3. PICK t, v, d, s : t = tab[q] /\ v = tab'[q] /\ d = down[q] /\ s = seat[q]
    OBVIOUS
  <2>4. Shows(v) => Shows(t) /\ v.model = t.model /\ v.version = t.version /\ t.holds \subseteq v.holds
    BY <1>1, <2>3 DEF StillShows
  <2>5. Follows(order, held, t, d, s)
    BY <1>3, <2>1, <2>3
  <2>6. Follows(order, held, v, d, s)
    BY <2>4, <2>5, FollowsShown
  <2> QED
    BY <2>2, <2>3, <2>6
<1> QED
  BY <1>2, <1>4, <1>5 DEF Tale, Story

LEMMA DrawTells ==
    ASSUME Inv, Tale, NEW p \in Page, Draw(p)
    PROVE  Tale'
<1> DEFINE e0 == edits + 1
           r0 == LET here == [tab[p] EXCEPT !.holds = @ \cup {e0}]
                 IN  IF ~Submits(here, e0) THEN [t |-> here, out |-> <<>>]
                     ELSE Drain(Persist([here EXCEPT !.outbox = Append(@, [e |-> e0, diagram |-> here.diagram, sent |-> FALSE])]),
                                open[p])
<1> HIDE DEF e0, r0
<1>1. PICK t, e, o, r : t = tab[p] /\ e = e0 /\ o = open[p] /\ r = r0
  OBVIOUS
<1>2. /\ edits < MaxEdits /\ Sends(p, r) /\ UNCHANGED <<server, down>>
  BY <1>1 DEF Draw, e0, r0
<1>3. /\ TypeOK /\ t \in Tab /\ WellTab(t) /\ o \in BOOLEAN /\ e \in Edit
  <2>1. e \in Edit
    BY <1>1, <1>2, SeatsAssumption DEF Inv, TypeOK, Edit, e0
  <2> QED
    BY <1>1, <2>1, TabIn DEF Inv
<1> DEFINE here == [t EXCEPT !.holds = t.holds \cup {e}]
<1>4. /\ here \in Tab /\ here.outbox = t.outbox /\ here.model = t.model /\ here.diagram = t.diagram
      /\ here.version = t.version /\ here.hydrated = t.hydrated /\ here.holds = t.holds \cup {e}
  BY <1>3 DEF Tab
<1>5. r = IF ~t.hydrated THEN [t |-> here, out |-> <<>>]
          ELSE Drain(Persist([here EXCEPT !.outbox = Append(here.outbox, [e |-> e, diagram |-> here.diagram, sent |-> FALSE])]), o)
  BY <1>1, <1>4 DEF r0, e0, Submits
<1> HIDE DEF here
<1>6. Alike(here, r.t) /\ r.out \in Seq(Up) /\ \A i \in DOMAIN r.out : r.out[i].cmd # "resume"
  <2>1. CASE ~t.hydrated
    <3>1. r = [t |-> here, out |-> << >>] /\ << >> \in Seq(Up) /\ DOMAIN << >> = {}
      BY <1>5, <2>1
    <3> QED
      BY <3>1 DEF Alike
  <2>2. CASE t.hydrated
    <3> DEFINE w == [e |-> e, diagram |-> t.diagram, sent |-> FALSE]
               outbox == Append(t.outbox, w)
               u == [here EXCEPT !.outbox = outbox]
    <3>1. t.diagram \in Doc
      <4>1. forkOf \subseteq Diagram /\ t.model \in Ids
        BY <1>3, TabFields DEF TypeOK
      <4>2. t.model # None /\ (t.model = t.diagram \/ t.diagram \in forkOf)
        BY <1>3, <2>2 DEF WellTab, Shown
      <4> QED
        BY <4>1, <4>2 DEF Ids, Doc
    <3>2. w \in Waiting
      BY <1>3, <3>1 DEF Waiting
    <3>3. outbox \in Seq(Waiting)
      BY <1>3, <3>2, TabFields, AppendProperties
    <3>4. r = Drain(Persist(u), o)
      BY <1>4, <1>5, <2>2
    <3> HIDE DEF outbox
    <3>5. u \in Tab /\ Alike(here, u)
      BY <1>4, <3>3 DEF Tab, Alike
    <3> HIDE DEF u
    <3>6. Persist(u) \in Tab /\ Alike(u, Persist(u))
      BY <3>5, PersistAlike
    <3>7. Alike(Persist(u), r.t) /\ r.out \in Seq(Up) /\ \A i \in DOMAIN r.out : r.out[i].cmd = "commit"
      BY <1>3, <3>4, <3>6, DrainAlike, DrainOut
    <3> QED
      BY <3>5, <3>6, <3>7 DEF Alike
  <2> QED
    BY <2>1, <2>2
<1>7. PICK u, out : u = r.t /\ out = r.out
  OBVIOUS
<1>8. tab' = [tab EXCEPT ![p] = u] /\ up' = [up EXCEPT ![p] = up[p] \o out]
  BY <1>2, <1>7 DEF Sends
<1>9. StillShows(tab[p], u) /\ u.version = tab[p].version
  BY <1>1, <1>4, <1>6, <1>7 DEF Alike, StillShows, Shows
<1>10. out \in Seq(Up) /\ \A i \in DOMAIN out : out[i].cmd = "resume" => out[i].version = u.version
  BY <1>6, <1>7
<1>11. UNCHANGED <<doc, owner, down, seat>>
  BY <1>2 DEF server
<1> QED
  BY <1>3, <1>8, <1>9, <1>10, <1>11, SpeechTells

LEMMA AskTells ==
    ASSUME Inv, Tale, NEW p \in Page, NEW sent, sent.t \in Tab, Alike(tab[p], sent.t), sent.out \in Seq(Up),
           \A i \in DOMAIN sent.out : sent.out[i].cmd # "resume",
           NEW request \in Up, request.cmd # "resume", Ask(p, sent, request)
    PROVE  Tale'
<1> DEFINE u   == [sent.t EXCEPT !.hydrated = FALSE, !.expect = TRUE, !.outbox = <<>>]
           out == Append(sent.out, request)
<1>1. /\ tab' = [tab EXCEPT ![p] = Persist(u)] /\ up' = [up EXCEPT ![p] = up[p] \o out]
      /\ UNCHANGED <<doc, owner, down, seat>>
  BY DEF Ask, Sends, server
<1>2. TypeOK
  BY DEF Inv
<1>3. u \in Tab /\ u.hydrated = FALSE /\ u.version = sent.t.version
  <2>1. << >> \in Seq(Waiting)
    OBVIOUS
  <2> QED
    BY <2>1 DEF Tab
<1> HIDE DEF u
<1>4. Alike(u, Persist(u))
  BY <1>3, PersistAlike
<1>5. StillShows(tab[p], Persist(u)) /\ Persist(u).version = tab[p].version
  BY <1>3, <1>4 DEF Alike, StillShows, Shows
<1>6. out \in Seq(Up) /\ \A i \in DOMAIN out : out[i].cmd # "resume"
  <2> DEFINE old == sent.out
  <2>1. old \in Seq(Up) /\ \A i \in DOMAIN old : old[i].cmd # "resume"
    OBVIOUS
  <2> HIDE DEF old
  <2>2. Append(old, request) \in Seq(Up) /\ Len(Append(old, request)) = Len(old) + 1
        /\ \A i \in 1 .. Len(old) : Append(old, request)[i] = old[i]
        /\ Append(old, request)[Len(old) + 1] = request
    BY <2>1, AppendProperties
  <2>3. \A i \in DOMAIN Append(old, request) : i \in DOMAIN old \/ i = Len(old) + 1
    BY <2>1, <2>2
  <2> QED
    BY <2>1, <2>2, <2>3 DEF old
<1> HIDE DEF out
<1>7. \A i \in DOMAIN out : out[i].cmd = "resume" => out[i].version = Persist(u).version
  BY <1>6
<1> QED
  BY <1>1, <1>2, <1>5, <1>6, <1>7, SpeechTells

LEMMA AskingTells ==
    ASSUME Inv, Tale, NEW p \in Page,
           CreateDiagram(p) \/ DeleteDiagram(p) \/ \E d \in Doc : OpenDiagram(p, d)
    PROVE  Tale'
<1> DEFINE drained == Drain(tab[p], TRUE)
<1>1. /\ tab[p] \in Tab /\ Alike(tab[p], drained.t) /\ drained.out \in Seq(Up) /\ drained.t \in Tab
      /\ \A i \in DOMAIN drained.out : drained.out[i].cmd # "resume"
  <2>1. tab[p] \in Tab /\ WellTab(tab[p])
    BY TabIn
  <2>2. drained.t \in Tab
    BY <2>1, DrainSound DEF Sound, Result
  <2> QED
    BY <2>1, <2>2, DrainAlike, DrainOut
<1>2. CASE \E d \in Doc : OpenDiagram(p, d)
  <2>1. PICK d \in Doc : OpenDiagram(p, d)
    BY <1>2
  <2> DEFINE request == [cmd |-> "open", diagram |-> d]
  <2>2. request \in Up /\ request.cmd # "resume"
    BY Named, IsUp
  <2>3. Ask(p, drained, request)
    BY <2>1 DEF OpenDiagram
  <2> HIDE DEF request, drained
  <2> QED
    BY <1>1, <2>2, <2>3, AskTells
<1>3. CASE CreateDiagram(p)
  <2> DEFINE request == [cmd |-> "create", doc |-> {}]
  <2>1. request \in Up /\ request.cmd # "resume"
    BY IsUp
  <2>2. Ask(p, drained, request)
    BY <1>3 DEF CreateDiagram
  <2> HIDE DEF request, drained
  <2> QED
    BY <1>1, <2>1, <2>2, AskTells
<1>4. CASE DeleteDiagram(p)
  <2> DEFINE request == [cmd |-> "delete", diagram |-> tab[p].model]
             sent    == [t |-> tab[p], out |-> <<>>]
  <2>1. request \in Up /\ request.cmd # "resume"
    BY TabIn, TabFields, IsUp
  <2>2. Ask(p, sent, request)
    BY <1>4 DEF DeleteDiagram
  <2>3. sent.t \in Tab /\ Alike(tab[p], sent.t) /\ sent.out \in Seq(Up)
        /\ \A i \in DOMAIN sent.out : sent.out[i].cmd # "resume"
    <3>1. << >> \in Seq(Up) /\ DOMAIN << >> = {}
      OBVIOUS
    <3> QED
      BY <1>1, <3>1 DEF Alike
  <2> HIDE DEF request, sent
  <2> QED
    BY <2>1, <2>2, <2>3, AskTells
<1> QED
  BY <1>2, <1>3, <1>4

LEMMA ReadOnlyPulseTells ==
    ASSUME Inv, Tale, NEW p \in Page, ReadOnlyPulse(p)
    PROVE  Tale'
<1> DEFINE u == [tab[p] EXCEPT !.outbox = <<>>]
<1>1. TypeOK /\ tab[p] \in Tab
  BY TabIn DEF Inv
<1>2. tab' = [tab EXCEPT ![p] = Persist(u)] /\ UNCHANGED <<doc, owner, up, down, seat>>
  BY DEF ReadOnlyPulse, server
<1>3. u \in Tab /\ Alike(tab[p], u)
  <2>1. << >> \in Seq(Waiting)
    OBVIOUS
  <2> QED
    BY <1>1, <2>1 DEF Tab, Alike
<1> HIDE DEF u
<1>4. Alike(u, Persist(u))
  BY <1>3, PersistAlike
<1>5. StillShows(tab[p], Persist(u)) /\ Persist(u).version = tab[p].version
  BY <1>3, <1>4 DEF Alike, StillShows, Shows
<1>6. << >> \in Seq(Up) /\ DOMAIN << >> = {} /\ up' = [up EXCEPT ![p] = up[p] \o << >>]
  <2>1. up[p] \in Seq(Up) /\ up \in [Page -> Seq(Up)]
    BY <1>1 DEF TypeOK
  <2>2. up[p] \o << >> = up[p]
    BY <2>1, ConcatEmptySeq
  <2> QED
    BY <1>2, <2>1, <2>2
<1>7. \A i \in DOMAIN << >> : << >>[i].cmd = "resume" => << >>[i].version = Persist(u).version
  BY <1>6
<1> QED
  BY <1>1, <1>2, <1>5, <1>6, <1>7, SpeechTells

LEMMA ConnectTells ==
    ASSUME Inv, Tale, NEW p \in Page, Connect(p)
    PROVE  Tale'
<1> DEFINE marked == [i \in DOMAIN tab[p].outbox |-> [tab[p].outbox[i] EXCEPT !.sent = FALSE]]
           u == [tab[p] EXCEPT !.resync = FALSE, !.outbox = marked]
           resume == [cmd |-> "resume", diagram |-> tab[p].model, version |-> tab[p].version]
           hello  == [cmd |-> "hello", diagram |-> tab[p].last]
<1>1. TypeOK /\ tab[p] \in Tab
  BY TabIn DEF Inv
<1>2. /\ Sends(p, IF tab[p].hydrated THEN [t |-> u, out |-> << resume >>]
                  ELSE [t |-> tab[p], out |-> << hello >>])
      /\ UNCHANGED <<doc, owner, down, seat>>
  BY <1>1 DEF Connect, server, Tab
<1>3. marked \in Seq(Waiting)
  BY <1>1, TabFields, MarkedIs
<1> HIDE DEF marked
<1>4. u \in Tab /\ Alike(tab[p], u) /\ Alike(tab[p], tab[p])
  BY <1>1, <1>3 DEF Tab, Alike
<1> HIDE DEF u
<1>5. resume \in Up /\ hello \in Up /\ resume.version = tab[p].version /\ hello.cmd = "hello"
  BY <1>1, TabFields, IsUp
<1> HIDE DEF resume, hello
<1>6. PICK v, m : /\ Alike(tab[p], v) /\ m \in Up /\ (m.cmd = "resume" => m.version = tab[p].version)
                  /\ Sends(p, [t |-> v, out |-> << m >>])
  <2>1. CASE tab[p].hydrated
    BY <1>2, <1>4, <1>5, <2>1
  <2>2. CASE ~tab[p].hydrated
    BY <1>2, <1>4, <1>5, <2>2
  <2> QED
    BY <2>1, <2>2
<1>7. tab' = [tab EXCEPT ![p] = v] /\ up' = [up EXCEPT ![p] = up[p] \o << m >>]
  BY <1>6 DEF Sends
<1>8. << m >> \in Seq(Up) /\ DOMAIN << m >> = {1} /\ << m >>[1] = m
  BY <1>6, OneMessage
<1>9. StillShows(tab[p], v) /\ v.version = tab[p].version
  BY <1>6 DEF Alike, StillShows, Shows
<1>10. \A i \in DOMAIN << m >> : << m >>[i].cmd = "resume" => << m >>[i].version = v.version
  BY <1>6, <1>8, <1>9
<1> QED
  BY <1>1, <1>2, <1>7, <1>8, <1>9, <1>10, SpeechTells

LEMMA HearTells ==
    ASSUME Inv, Tale, NEW p \in Page, Hear(p)
    PROVE  Tale'
<1>1. PICK t, q, m, r, s : t = tab[p] /\ q = down[p] /\ m = down[p][1] /\ r = Heard(t, m) /\ s = seat[p]
  OBVIOUS
<1>2. TypeOK /\ q \in Seq(Down) /\ q # << >> /\ t \in Tab /\ WellTab(t)
  BY <1>1, TabIn DEF Inv, TypeOK, Hear
<1>3. Head(q) = m /\ 1 \in DOMAIN q /\ 1 \in 1 .. Len(q) /\ Tail(q) \in Seq(Down) /\ m \in Down
  BY <1>1, <1>2
<1>4. /\ down' = [down EXCEPT ![p] = Tail(q)] /\ Sends(p, r)
      /\ UNCHANGED <<doc, owner, seat>>
  BY <1>1, <1>3 DEF Hear, server
<1>5. WellDown(m) /\ (m.cmd \in {"ack", "change"} => ~Virgin(t))
  BY <1>1, <1>3 DEF Inv, Wire, Messages, Answered, First
<1>6. m.cmd = "forked" => t.model = Template
  <2>1. m.cmd = "forked" => On(Template, t.model, q, 1)
    BY <1>1, <1>3 DEF Inv, Wire, Forked
  <2>2. \A j \in 0 .. 1 - 1 : j = 0
    OBVIOUS
  <2> QED
    BY <2>1, <2>2 DEF On
<1>7. r.out \in Seq(Up) /\ \A i \in DOMAIN r.out : r.out[i].cmd # "resume"
  <2>1. Sound(t, r)
    BY <1>1, <1>2, <1>3, <1>5, <1>6, HeardSound
  <2> QED
    BY <2>1 DEF Sound, Result
<1>8. PICK u, out : u = r.t /\ out = r.out
  OBVIOUS
<1>9. tab' = [tab EXCEPT ![p] = u] /\ up' = [up EXCEPT ![p] = up[p] \o out]
  BY <1>4, <1>8 DEF Sends
<1>10. Recalls'
  <2>1. (\E i \in DOMAIN up[p] : up[p][i].cmd = "resume") => u.version = tab[p].version
    <3> SUFFICES ASSUME \E i \in DOMAIN up[p] : up[p][i].cmd = "resume" PROVE u.version = tab[p].version
      OBVIOUS
    <3>1. m.cmd \in {"access", "error"}
      BY <1>1, <1>3 DEF Inv, Wire, Resuming
    <3>2. Alike(t, u)
      BY <1>1, <1>2, <1>3, <1>8, <3>1, PlainAlike
    <3> QED
      BY <1>1, <3>2 DEF Alike
  <2>2. out \in Seq(Up) /\ \A i \in DOMAIN out : out[i].cmd = "resume" => out[i].version = u.version
    BY <1>7, <1>8
  <2>3. Recalls
    BY DEF Tale
  <2> QED
    BY <1>2, <1>9, <2>1, <2>2, <2>3, RecallsSpeech
<1>11. PICK order : Orders(order, doc) /\ \A i \in Page : Follows(order, Held, tab[i], down[i], seat[i])
  BY DEF Tale, Story
<1>12. Orders(order, doc)'
  BY <1>4, <1>11 DEF Orders
<1>13. PICK held : held = Held
  OBVIOUS
<1>14. Held' = held /\ held \in SUBSET Doc /\ order \in History
  BY <1>4, <1>11, <1>13 DEF Held, Minted, Doc, Orders
<1>15. tab'[p] = u /\ down'[p] = Tail(q) /\ seat'[p] = s
       /\ \A i \in Page \ {p} : tab'[i] = tab[i] /\ down'[i] = down[i] /\ seat'[i] = seat[i]
  BY <1>1, <1>2, <1>4, <1>9 DEF TypeOK
<1>16. Follows(order, held, u, Tail(q), s)
  <2>1. Follows(order, held, t, q, s)
    BY <1>1, <1>11, <1>13
  <2>2. PICK d, n : Path(order, held, t, q, s, d, n)
    BY <2>1 DEF Follows
  <2>3. /\ d[1] \in held \cup {None} /\ Leads(order, m, d[0], n[0], d[1], n[1])
        /\ Shows(t) => d[0] = t.model /\ n[0] = t.version /\ t.model \in held
                       /\ Begins(order, t.model, t.version, t.holds)
    <3>1. 1 \in 0 .. Len(q) /\ 1 - 1 = 0 /\ q[1] = m
      BY <1>1, <1>2, <1>3
    <3> QED
      BY <1>3, <2>2, <3>1 DEF Path
  <2>4. PICK d0, n0, d1, n1 : d0 = d[0] /\ n0 = n[0] /\ d1 = d[1] /\ n1 = n[1]
    OBVIOUS
  <2>5. /\ d1 \in held \cup {None} /\ Leads(order, m, d0, n0, d1, n1)
        /\ Shows(t) => d0 = t.model /\ n0 = t.version /\ t.model \in held
                       /\ Begins(order, t.model, t.version, t.holds)
    BY <2>3, <2>4
  <2>6. Shows(u) => d1 = u.model /\ n1 = u.version /\ u.model \in held
                    /\ Begins(order, u.model, u.version, u.holds)
    <3>1. u = Heard(t, m).t
      BY <1>1, <1>8
    <3>2. LET v == Heard(t, m).t
          IN  Shows(v) => d1 = v.model /\ n1 = v.version /\ v.model \in held
                          /\ Begins(order, v.model, v.version, v.holds)
      <4>1. order \in History /\ held \in SUBSET Doc /\ t \in Tab /\ WellTab(t) /\ m \in Down
            /\ (m.cmd = "forked" => t.model = Template)
        BY <1>2, <1>3, <1>6, <1>14
      <4> QED
        BY <2>5, <4>1, HeardShows, Zenon
    <3> QED
      BY <3>1, <3>2, Zenon
  <2>7. Shows(u) => d[1] = u.model /\ n[1] = u.version /\ u.model \in held
                    /\ Begins(order, u.model, u.version, u.holds)
    BY <2>4, <2>6
  <2> QED
    BY <1>2, <2>2, <2>7, FollowsTail
<1>17. \A i \in Page : Follows(order, Held, tab[i], down[i], seat[i])'
  BY <1>11, <1>13, <1>14, <1>15, <1>16
<1> QED
  BY <1>10, <1>12, <1>17 DEF Tale, Story

\* A session that ends leads nowhere.
LEMMA FollowsGone ==
    ASSUME NEW order, NEW held, NEW t, NEW u, NEW q \in Seq(Down), NEW s, Follows(order, held, t, q, s), u = t \/ ~Shows(u)
    PROVE  Follows(order, held, u, << >>, None)
<1>1. PICK d, n : Path(order, held, t, q, s, d, n)
  BY DEF Follows
<1>2. d[0] \in held \cup {None} /\ n[0] \in Nat
  <2>1. 0 \in 0 .. Len(q)
    OBVIOUS
  <2> QED
    BY <1>1, <2>1 DEF Path
<1>3. PICK none : none = None
  OBVIOUS
<1> DEFINE d2 == [i \in 0 .. 0 |-> d[0]]
           n2 == [i \in 0 .. 0 |-> n[0]]
<1>4. Len(<< >>) = 0 /\ 1 .. 0 = {} /\ d2[0] = d[0] /\ n2[0] = n[0]
  OBVIOUS
<1>5. d2 \in [0 .. 0 -> held \cup {None}] /\ n2 \in [0 .. 0 -> Nat]
  BY <1>2
<1> HIDE DEF d2, n2
<1>6. Shows(u) => d[0] = u.model /\ n[0] = u.version /\ u.model \in held
                  /\ Begins(order, u.model, u.version, u.holds)
  BY <1>1 DEF Path
<1>7. Path(order, held, u, << >>, none, d2, n2)
  BY <1>3, <1>4, <1>5, <1>6 DEF Path
<1>8. Follows(order, held, u, << >>, none)
  BY <1>7 DEF Follows
<1> QED
  BY <1>3, <1>8

LEMMA GoneTells ==
    ASSUME Inv, Tale, NEW p \in Page, Drop(p) \/ Reload(p)
    PROVE  Tale'
<1>1. /\ up' = [up EXCEPT ![p] = <<>>] /\ down' = [down EXCEPT ![p] = <<>>]
      /\ seat' = [seat EXCEPT ![p] = None] /\ UNCHANGED <<owner, doc>>
  BY DEF Drop, Reload, Gone
<1> DEFINE u == [NewTab(tab[p].last) EXCEPT !.saved = tab[p].saved]
<1>2. tab' = tab \/ tab' = [tab EXCEPT ![p] = u]
  BY DEF Drop, Reload
<1>3. ~Shows(u)
  BY DEF NewTab, Shows
<1> HIDE DEF u
<1>4. TypeOK
  BY DEF Inv
<1>5. /\ up'[p] = << >> /\ down'[p] = << >> /\ seat'[p] = None /\ (tab'[p] = tab[p] \/ ~Shows(tab'[p]))
      /\ \A q \in Page \ {p} : up'[q] = up[q] /\ down'[q] = down[q] /\ seat'[q] = seat[q] /\ tab'[q] = tab[q]
      /\ DOMAIN << >> = {}
  BY <1>1, <1>2, <1>3, <1>4 DEF TypeOK
<1>6. Recalls'
  BY <1>5 DEF Tale, Recalls
<1>7. PICK order : Orders(order, doc) /\ \A i \in Page : Follows(order, Held, tab[i], down[i], seat[i])
  BY DEF Tale, Story
<1>8. Orders(order, doc)'
  BY <1>1, <1>7 DEF Orders
<1>9. PICK held : held = Held
  OBVIOUS
<1>10. Held' = held
  BY <1>1, <1>9 DEF Held, Minted
<1>11. Follows(order, held, tab'[p], << >>, None)
  <2>1. PICK t, v, q, s : t = tab[p] /\ v = tab'[p] /\ q = down[p] /\ s = seat[p]
    OBVIOUS
  <2>2. q \in Seq(Down) /\ Follows(order, held, t, q, s) /\ (v = t \/ ~Shows(v))
    BY <1>4, <1>5, <1>7, <1>9, <2>1 DEF TypeOK
  <2>3. Follows(order, held, v, << >>, None)
    BY <2>2, FollowsGone
  <2> QED
    BY <2>1, <2>3
<1>12. ASSUME NEW i \in Page
       PROVE  Follows(order, Held, tab[i], down[i], seat[i])'
  <2>1. CASE i = p
    BY <1>5, <1>10, <1>11, <2>1
  <2>2. CASE i # p
    BY <1>5, <1>7, <1>9, <1>10, <2>2
  <2> QED
    BY <2>1, <2>2
<1> QED
  BY <1>6, <1>8, <1>12 DEF Tale, Story

-----------------------------------------------------------------------------
(* Documents and the order they were written in                             *)

LEMMA InOrder ==
    ASSUME NEW S, S \subseteq Edit
    PROVE  \E s \in Seq(Edit) : S = {s[i] : i \in 1 .. Len(s)} /\ Cardinality(S) = Len(s)
<1>1. IsFiniteSet(S)
  <2>1. IsFiniteSet(1 .. MaxEdits)
    BY FS_Interval, SeatsAssumption
  <2> QED
    BY <2>1, FS_Subset DEF Edit
<1>2. Cardinality(S) \in Nat /\ ExistsBijection(1 .. Cardinality(S), S)
  BY <1>1, FS_CardinalityType
<1>3. PICK k \in Nat : k = Cardinality(S)
  BY <1>2
<1>4. PICK f : f \in Bijection(1 .. k, S)
  BY <1>2, <1>3 DEF ExistsBijection
<1>5. f \in [1 .. k -> S] /\ \A e \in S : \E i \in 1 .. k : f[i] = e
  BY <1>4 DEF Bijection, Injection, Surjection
<1>6. f \in Seq(Edit) /\ Len(f) = k
  <2>1. f \in [1 .. k -> Edit]
    BY <1>5
  <2>2. f \in Seq(Edit)
    BY <2>1, IsASeq
  <2>3. DOMAIN f = 1 .. k /\ DOMAIN f = 1 .. Len(f) /\ Len(f) \in Nat
    BY <2>1, <2>2
  <2>4. k = Len(f)
    BY <2>3
  <2> QED
    BY <2>2, <2>4
<1>7. S = {f[i] : i \in 1 .. Len(f)}
  BY <1>5, <1>6
<1> QED
  BY <1>3, <1>6, <1>7

\* A document that is new, or written whole.
LEMMA MintedOrder ==
    ASSUME NEW order, NEW docs, Orders(order, docs), NEW d \in Doc, NEW then,
           then[d] \subseteq Edit, \A i \in Doc \ {d} : then[i] = docs[i]
    PROVE  \E new : Orders(new, then) /\ \A i \in Doc \ {d} : new[i] = order[i]
<1>1. PICK s \in Seq(Edit) : then[d] = {s[i] : i \in 1 .. Len(s)} /\ Cardinality(then[d]) = Len(s)
  BY InOrder
<1> DEFINE new == [order EXCEPT ![d] = s]
<1>2. order \in History
  BY DEF Orders
<1>3. new \in History /\ new[d] = s /\ \A i \in Doc \ {d} : new[i] = order[i]
  BY <1>2 DEF History
<1> HIDE DEF new
<1>4. ASSUME NEW i \in Doc
      PROVE  then[i] = {new[i][k] : k \in 1 .. Len(new[i])} /\ Cardinality(then[i]) = Len(new[i])
  <2>1. CASE i = d
    BY <1>1, <1>3, <2>1
  <2>2. CASE i # d
    <3>1. new[i] = order[i] /\ then[i] = docs[i]
      BY <1>3, <2>2
    <3> QED
      BY <3>1 DEF Orders
  <2> QED
    BY <2>1, <2>2
<1>5. Orders(new, then)
  BY <1>3, <1>4 DEF Orders
<1> QED
  BY <1>3, <1>5

\* An edit more, at the end.
Adds(order, new, d, e) ==
    /\ \A i \in Doc \ {d} : new[i] = order[i]
    /\ Len(new[d]) = Len(order[d]) + 1 /\ new[d][Len(order[d]) + 1] = e
    /\ \A i \in 1 .. Len(order[d]) : new[d][i] = order[d][i]

LEMMA LandedOrder ==
    ASSUME NEW order, NEW docs, Orders(order, docs), NEW d \in Doc, NEW e \in Edit, docs[d] \subseteq Edit, e \notin docs[d],
           NEW then, then[d] = docs[d] \cup {e}, \A i \in Doc \ {d} : then[i] = docs[i]
    PROVE  \E new : Orders(new, then) /\ Adds(order, new, d, e)
<1>1. order \in History /\ order[d] \in Seq(Edit)
      /\ docs[d] = {order[d][i] : i \in 1 .. Len(order[d])} /\ Cardinality(docs[d]) = Len(order[d])
  <2>1. order \in History
    BY DEF Orders
  <2> QED
    BY <2>1, OrderFields DEF Orders
<1>2. PICK s \in Seq(Edit) : s = order[d]
  BY <1>1
<1> DEFINE x   == Append(s, e)
           new == [order EXCEPT ![d] = x]
<1>3. /\ x \in Seq(Edit) /\ Len(x) = Len(s) + 1 /\ x[Len(s) + 1] = e
      /\ \A i \in 1 .. Len(s) : x[i] = s[i]
  BY AppendProperties
<1> HIDE DEF x
<1>4. new \in History /\ new[d] = x /\ \A i \in Doc \ {d} : new[i] = order[i]
  BY <1>1, <1>3 DEF History
<1> HIDE DEF new
<1>5. then[d] = {x[i] : i \in 1 .. Len(x)}
  <2>1. Len(s) \in Nat /\ docs[d] = {s[i] : i \in 1 .. Len(s)}
    BY <1>1, <1>2
  <2>2. 1 .. Len(x) = (1 .. Len(s)) \cup {Len(s) + 1}
    BY <1>3, <2>1
  <2> QED
    BY <1>3, <2>1, <2>2
<1>6. Cardinality(then[d]) = Len(x)
  <2>1. IsFiniteSet(docs[d])
    <3>1. IsFiniteSet(1 .. MaxEdits)
      BY FS_Interval, SeatsAssumption
    <3> QED
      BY <3>1, FS_Subset DEF Edit
  <2>2. Cardinality(docs[d] \cup {e}) = Cardinality(docs[d]) + 1
    BY <2>1, FS_AddElement
  <2> QED
    BY <1>1, <1>2, <1>3, <2>2
<1>7. ASSUME NEW i \in Doc
      PROVE  then[i] = {new[i][k] : k \in 1 .. Len(new[i])} /\ Cardinality(then[i]) = Len(new[i])
  <2>1. CASE i = d
    BY <1>4, <1>5, <1>6, <2>1
  <2>2. CASE i # d
    <3>1. new[i] = order[i] /\ then[i] = docs[i]
      BY <1>4, <2>2
    <3> QED
      BY <3>1 DEF Orders
  <2> QED
    BY <2>1, <2>2
<1>8. Orders(new, then)
  BY <1>4, <1>7 DEF Orders
<1>9. Adds(order, new, d, e)
  BY <1>2, <1>3, <1>4 DEF Adds
<1> QED
  BY <1>8, <1>9

LEMMA ExtendsSame ==
    ASSUME NEW order \in History, NEW new \in History, NEW held \in SUBSET Doc, \A i \in held : new[i] = order[i]
    PROVE  Extends(order, new, held)
<1>1. \A i \in held : Len(order[i]) \in Nat
  BY OrderFields
<1> QED
  BY <1>1 DEF Extends

-----------------------------------------------------------------------------
(* What the server does takes each page where its session is                *)

LEMMA HeldGrows ==
    ASSUME \A i \in Minted : owner'[i] = owner[i]
    PROVE  Held \subseteq Held' /\ Held \in SUBSET Doc /\ Held' \in SUBSET Doc
  BY DEF Held, Minted, Doc

LEMMA RecallsRead ==
    ASSUME TypeOK, Recalls, tab' = tab,
           \A q \in Page : up'[q] = up[q] \/ (up[q] # << >> /\ up'[q] = Tail(up[q]))
    PROVE  Recalls'
<1> SUFFICES ASSUME NEW q \in Page, NEW i \in DOMAIN up'[q], up'[q][i].cmd = "resume"
             PROVE  up'[q][i].version = tab'[q].version
  BY DEF Recalls
<1>1. CASE up'[q] = up[q]
  BY <1>1 DEF Recalls
<1>2. CASE up[q] # << >> /\ up'[q] = Tail(up[q])
  <2>1. up[q] \in Seq(Up)
    BY DEF TypeOK
  <2>2. i + 1 \in DOMAIN up[q] /\ up'[q][i] = up[q][i + 1]
    BY <1>2, <2>1, TailAt
  <2> QED
    BY <2>2 DEF Recalls
<1> QED
  BY <1>1, <1>2

\* A session answers its page, and no other moves.
LEMMA AnswerTells ==
    ASSUME TypeOK, Recalls, NEW p \in Page, up[p] # << >>, NEW msgs \in Seq(Down), Answer(p, msgs), tab' = tab,
           \A q \in Page \ {p} : seat'[q] = seat[q], \A i \in Minted : owner'[i] = owner[i],
           NEW order, Orders(order, doc), \A q \in Page : Follows(order, Held, tab[q], down[q], seat[q]),
           NEW new, Orders(new, doc'), \A i \in Held : new[i] = order[i],
           Follows(new, Held', tab[p], down[p] \o msgs, seat'[p])
    PROVE  Tale'
<1>1. up \in [Page -> Seq(Up)] /\ down \in [Page -> Seq(Down)] /\ tab \in [Page -> Tab]
  BY DEF TypeOK
<1>2. /\ up'[p] = Tail(up[p]) /\ down'[p] = down[p] \o msgs
      /\ \A q \in Page \ {p} : up'[q] = up[q] /\ down'[q] = down[q]
  BY <1>1 DEF Answer
<1>3. Recalls'
  BY <1>2, RecallsRead
<1>4. Orders(new, doc)'
  BY DEF Orders
<1>5. PICK held, more : held = Held /\ more = Held'
  OBVIOUS
<1>6. /\ order \in History /\ new \in History /\ held \in SUBSET Doc /\ more \in SUBSET Doc /\ held \subseteq more
      /\ \A i \in held : new[i] = order[i]
  BY <1>5, HeldGrows DEF Orders
<1>7. Extends(order, new, held)
  BY <1>6, ExtendsSame
<1>8. ASSUME NEW q \in Page
      PROVE  Follows(new, more, tab'[q], down'[q], seat'[q])
  <2>1. CASE q = p
    BY <1>2, <1>5, <2>1
  <2>2. CASE q # p
    <3>1. PICK t, d, s : t = tab[q] /\ d = down[q] /\ s = seat[q]
      OBVIOUS
    <3>2. t \in Tab /\ d \in Seq(Down) /\ Follows(order, held, t, d, s)
      BY <1>1, <1>5, <3>1
    <3>3. s \in held => Len(new[s]) = Len(order[s])
      BY <1>6
    <3>4. Follows(new, more, t, d, s)
      BY <1>6, <1>7, <3>2, <3>3, FollowsOn
    <3> QED
      BY <1>2, <2>2, <3>1, <3>4
  <2> QED
    BY <2>1, <2>2
<1>9. \A q \in Page : Follows(new, Held, tab[q], down[q], seat[q])'
  BY <1>5, <1>8
<1> QED
  BY <1>3, <1>4, <1>9 DEF Tale, Story

LEMMA SnapshotDoc ==
    ASSUME NEW d, NEW p
    PROVE  Snapshot(d, p)'.doc = doc'[d]
  BY DEF Snapshot

LEMMA TakeTells ==
    ASSUME TypeOK, Recalls, NEW p \in Page, up[p] # << >>, NEW d \in Doc, d \in Held', Take(p, d), tab' = tab,
           doc' \in [Doc -> SUBSET Edit], \A i \in Minted : owner'[i] = owner[i],
           NEW order, Orders(order, doc), \A q \in Page : Follows(order, Held, tab[q], down[q], seat[q]),
           NEW new, Orders(new, doc'), \A i \in Held : new[i] = order[i]
    PROVE  Tale'
<1>1. PICK m : m = Snapshot(d, p)'
  OBVIOUS
<1>2. m \in Down /\ m.cmd = "snapshot" /\ m.diagram = d /\ m.doc = doc'[d]
  BY <1>1, SnapshotIs, SnapshotDoc
<1>3. PICK held, more, t, q, s : held = Held /\ more = Held' /\ t = tab[p] /\ q = down[p] /\ s = seat[p]
  OBVIOUS
<1>4. /\ order \in History /\ new \in History /\ held \in SUBSET Doc /\ more \in SUBSET Doc /\ held \subseteq more
      /\ \A i \in held : new[i] = order[i]
  BY <1>3, HeldGrows DEF Orders
<1>5. Extends(order, new, held)
  BY <1>4, ExtendsSame
<1>6. t \in Tab /\ q \in Seq(Down) /\ Follows(order, held, t, q, s)
  BY <1>3 DEF TypeOK
<1>7. PICK none : none = None
  OBVIOUS
<1>8. Follows(new, more, t, q, none)
  BY <1>4, <1>5, <1>6, <1>7, FollowsOn
<1>9. m.doc = {new[m.diagram][i] : i \in 1 .. Len(new[m.diagram])} /\ Cardinality(m.doc) = Len(new[m.diagram])
  BY <1>2 DEF Orders
<1>10. m.diagram \in more
  BY <1>2, <1>3
<1>11. Follows(new, more, t, q \o << m >>, m.diagram)
  BY <1>2, <1>4, <1>6, <1>8, <1>9, <1>10, FollowsSnapshot
<1>12. << m >> \in Seq(Down) /\ Answer(p, << m >>)
  BY <1>1, <1>2, OneMessage DEF Take, Answer
<1>13. seat'[p] = d /\ \A i \in Page \ {p} : seat'[i] = seat[i]
  BY DEF Take, TypeOK
<1>14. Follows(new, Held', tab[p], down[p] \o << m >>, seat'[p])
  BY <1>2, <1>3, <1>11, <1>13
<1>15. PICK ms : ms = << m >>
  OBVIOUS
<1>16. ms \in Seq(Down) /\ Answer(p, ms) /\ Follows(new, Held', tab[p], down[p] \o ms, seat'[p])
  BY <1>12, <1>14, <1>15
<1> QED
  BY <1>13, <1>16, AnswerTells, SMTT(60)

\* A session that is taken to a diagram it may read, nothing being written.
LEMMA TakenTells ==
    ASSUME Inv, Tale, NEW p \in Page, up[p] # << >>, NEW d, CanRead(d, p), Take(p, d),
           UNCHANGED <<owner, doc, tab>>
    PROVE  Tale'
<1>1. PICK order : Orders(order, doc) /\ \A q \in Page : Follows(order, Held, tab[q], down[q], seat[q])
  BY DEF Tale, Story
<1>2. TypeOK /\ Recalls /\ doc' \in [Doc -> SUBSET Edit] /\ Orders(order, doc')
  BY <1>1 DEF Inv, TypeOK, Tale
<1>3. d \in Doc /\ d \in Held'
  BY DEF CanRead, Held, Here, Minted, Doc
<1>4. \A i \in Minted : owner'[i] = owner[i]
  OBVIOUS
<1> QED
  BY <1>1, <1>2, <1>3, <1>4, TakeTells

\* An answer that says nothing of the document.
LEMMA PlainTells ==
    ASSUME Inv, Tale, NEW p \in Page, up[p] # << >>, NEW m \in Down, m.cmd \notin {"snapshot", "forked"}, ~Landing(m),
           Answer(p, << m >>), seat'[p] \in {seat[p], None}, \A q \in Page \ {p} : seat'[q] = seat[q],
           \A i \in Minted : owner'[i] = owner[i], UNCHANGED <<doc, tab>>
    PROVE  Tale'
<1>1. PICK order : Orders(order, doc) /\ \A q \in Page : Follows(order, Held, tab[q], down[q], seat[q])
  BY DEF Tale, Story
<1>2. TypeOK /\ Recalls /\ Orders(order, doc')
  BY <1>1 DEF Inv, Tale
<1>3. PICK held, more, t, q, s, then : /\ held = Held /\ more = Held' /\ t = tab[p] /\ q = down[p]
                                       /\ s = seat[p] /\ then = seat'[p]
  OBVIOUS
<1>4. /\ order \in History /\ held \in SUBSET Doc /\ more \in SUBSET Doc /\ held \subseteq more
  BY <1>1, <1>3, HeldGrows DEF Orders
<1>5. Extends(order, order, held)
  BY <1>4, ExtendsSame
<1>6. t \in Tab /\ q \in Seq(Down) /\ Follows(order, held, t, q, s)
  BY <1>1, <1>2, <1>3 DEF TypeOK
<1>7. Follows(order, more, t, q, s)
  BY <1>4, <1>5, <1>6, FollowsOn
<1>8. then \in {s, None}
  BY <1>3
<1>9. Follows(order, more, t, q \o << m >>, then)
  BY <1>4, <1>6, <1>7, <1>8, FollowsPlain
<1>10. << m >> \in Seq(Down)
  BY OneMessage
<1>11. Follows(order, Held', tab[p], down[p] \o << m >>, seat'[p])
  BY <1>3, <1>9
<1>12. \A i \in Held : order[i] = order[i]
  OBVIOUS
<1> QED
  BY <1>1, <1>2, <1>10, <1>11, <1>12, AnswerTells

LEMMA RefuseTells ==
    ASSUME Inv, Tale, NEW p \in Page, up[p] # << >>, NEW e \in Edit \cup {0}, Refuse(p, e), UNCHANGED tab
    PROVE  Tale'
<1>1. PICK m : m = Error(e)
  OBVIOUS
<1>2. m \in Down /\ m.cmd = "error"
  BY <1>1, IsDown DEF Error
<1>3. Answer(p, << m >>) /\ UNCHANGED <<doc, owner, seat>>
  BY <1>1 DEF Refuse, server
<1>4. m.cmd \notin {"snapshot", "forked"} /\ ~Landing(m)
  BY <1>2 DEF Landing
<1>5. seat'[p] \in {seat[p], None} /\ (\A q \in Page \ {p} : seat'[q] = seat[q]) /\ \A i \in Minted : owner'[i] = owner[i]
  BY <1>3
<1> QED
  BY <1>2, <1>3, <1>4, <1>5, PlainTells

LEMMA ReadHelloTells ==
    ASSUME Inv, Tale, NEW p \in Page, up[p] # << >>, NEW m \in Up, ReadHello(p, m), UNCHANGED tab
    PROVE  Tale'
<1>1. CASE Refuse(p, NoEdit)
  BY <1>1, RefuseTells DEF NoEdit
<1>2. CASE ~Refuse(p, NoEdit)
  <2>1. PICK d \in IF Known(m.diagram) THEN {m.diagram} ELSE Firsts(p) :
            /\ d # None /\ Take(p, d) /\ ~(Known(m.diagram) /\ ~CanRead(m.diagram, p))
            /\ UNCHANGED <<owner, doc>>
    BY <1>2 DEF ReadHello
  <2>2. CanRead(d, p)
    BY <2>1, FirstsRead
  <2> QED
    BY <2>1, <2>2, TakenTells
<1> QED
  BY <1>1, <1>2

LEMMA ReadOpenTells ==
    ASSUME Inv, Tale, NEW p \in Page, up[p] # << >>, NEW m \in Up, ReadOpen(p, m), UNCHANGED tab
    PROVE  Tale'
<1>1. CASE ~CanRead(m.diagram, p)
  <2>1. Refuse(p, NoEdit)
    BY <1>1 DEF ReadOpen
  <2> QED
    BY <2>1, RefuseTells DEF NoEdit
<1>2. CASE CanRead(m.diagram, p)
  <2>1. Take(p, m.diagram) /\ UNCHANGED <<owner, doc>>
    BY <1>2 DEF ReadOpen
  <2> QED
    BY <1>2, <2>1, TakenTells
<1> QED
  BY <1>1, <1>2

LEMMA ReadCreateTells ==
    ASSUME Inv, Tale, NEW p \in Page, up[p] # << >>, NEW m \in Up, ReadCreate(p, m), UNCHANGED tab
    PROVE  Tale'
<1>1. CASE Refuse(p, NoEdit)
  BY <1>1, RefuseTells DEF NoEdit
<1>2. CASE ~Refuse(p, NoEdit)
  <2>1. PICK d \in Diagram \ Minted : Mint(d, p, m.doc) /\ Take(p, d)
    BY <1>2 DEF ReadCreate
  <2>2. TypeOK /\ Recalls /\ m.doc \subseteq Edit
    BY UpFields DEF ReadCreate, Inv, Tale
  <2>3. d \in Doc /\ d # Template
    BY Named DEF Doc
  <2>4. /\ doc' \in [Doc -> SUBSET Edit] /\ doc'[d] = m.doc /\ \A i \in Doc \ {d} : doc'[i] = doc[i]
        /\ owner'[d] = p /\ \A i \in Minted : owner'[i] = owner[i]
    BY <2>1, <2>2, <2>3 DEF TypeOK, Mint, Minted
  <2>5. d \in Held'
    BY <2>4, SeatsAssumption DEF Held, Minted
  <2>6. PICK order : Orders(order, doc) /\ \A q \in Page : Follows(order, Held, tab[q], down[q], seat[q])
    BY DEF Tale, Story
  <2>7. PICK docs, then : docs = doc /\ then = doc'
    OBVIOUS
  <2>8. Orders(order, docs) /\ then[d] \subseteq Edit /\ \A i \in Doc \ {d} : then[i] = docs[i]
    BY <2>2, <2>4, <2>6, <2>7
  <2>9. PICK new : Orders(new, then) /\ \A i \in Doc \ {d} : new[i] = order[i]
    BY <2>3, <2>8, MintedOrder
  <2>10. d \notin Held /\ Held \subseteq Doc
    BY <2>1, <2>3 DEF Held, Minted, Doc
  <2>11. Orders(new, doc') /\ \A i \in Held : new[i] = order[i]
    BY <2>7, <2>9, <2>10
  <2> QED
    BY <2>1, <2>2, <2>3, <2>4, <2>5, <2>6, <2>11, TakeTells
<1> QED
  BY <1>1, <1>2

LEMMA ReadDeleteTells ==
    ASSUME Inv, Tale, NEW p \in Page, up[p] # << >>, NEW m \in Up, ReadDelete(p, m), UNCHANGED tab
    PROVE  Tale'
<1>1. CASE ~CanWrite(m.diagram, p)
  <2>1. Refuse(p, NoEdit)
    BY <1>1 DEF ReadDelete
  <2> QED
    BY <2>1, RefuseTells DEF NoEdit
<1>2. CASE CanWrite(m.diagram, p)
  <2>1. Reseeds(p, m.diagram) /\ UNCHANGED doc
    BY <1>2 DEF ReadDelete
  <2>2. PICK d \in Firsts(p)' :
            IF d # None THEN Take(p, d)
            ELSE /\ Answer(p, <<Error(NoEdit)>>)
                 /\ seat' = IF seat[p] = m.diagram THEN [seat EXCEPT ![p] = None] ELSE seat
    BY <1>2 DEF ReadDelete
  <2>3. TypeOK /\ Recalls
    BY DEF Inv, Tale
  <2>4. (\A i \in Minted : owner'[i] = owner[i]) /\ doc' \in [Doc -> SUBSET Edit]
    BY <2>1, <2>3, ReseedsIs DEF TypeOK
  <2>5. CASE d # None
    <3>1. d \in Doc /\ CanRead(d, p)'
      BY <2>2, <2>5, FirstsThen
    <3>2. d \in Held'
      BY <3>1 DEF CanRead, Held, Here, Minted
    <3>3. PICK order : Orders(order, doc) /\ \A q \in Page : Follows(order, Held, tab[q], down[q], seat[q])
      BY DEF Tale, Story
    <3>4. Orders(order, doc') /\ \A i \in Held : order[i] = order[i]
      BY <2>1, <3>3
    <3> QED
      BY <2>2, <2>3, <2>4, <2>5, <3>1, <3>2, <3>3, <3>4, TakeTells
  <2>6. CASE d = None
    <3>1. PICK x : x = Error(NoEdit)
      OBVIOUS
    <3>2. x \in Down /\ x.cmd = "error"
      BY <3>1, IsDown DEF Error, NoEdit
    <3>3. /\ Answer(p, << x >>) /\ seat'[p] \in {seat[p], None} /\ \A q \in Page \ {p} : seat'[q] = seat[q]
      BY <2>2, <2>3, <2>6, <3>1 DEF TypeOK
    <3>4. x.cmd \notin {"snapshot", "forked"} /\ ~Landing(x)
      BY <3>2 DEF Landing
    <3> QED
      BY <2>1, <2>4, <3>2, <3>3, <3>4, PlainTells
  <2> QED
    BY <2>5, <2>6
<1> QED
  BY <1>1, <1>2

\* A page that is told nothing of its document shows what it did.
LEMMA FollowsStill ==
    ASSUME NEW order, NEW held, NEW t, NEW q \in Seq(Down), \A j \in DOMAIN q : q[j].cmd \in {"access", "error", "sync"},
           NEW d \in held \cup {None}, NEW n \in Nat, NEW s,
           Shows(t) => d = t.model /\ n = t.version /\ t.model \in held /\ Begins(order, t.model, t.version, t.holds),
           d # None /\ s # None => d = s /\ n = Len(order[s])
    PROVE  Follows(order, held, t, q, s)
<1>1. PICK ds, ns : ds = [i \in 0 .. Len(q) |-> d] /\ ns = [i \in 0 .. Len(q) |-> n]
  OBVIOUS
<1>2. Len(q) \in Nat /\ 0 \in 0 .. Len(q) /\ Len(q) \in 0 .. Len(q) /\ DOMAIN q = 1 .. Len(q)
  OBVIOUS
<1>3. ds \in [0 .. Len(q) -> held \cup {None}] /\ ns \in [0 .. Len(q) -> Nat]
  BY <1>1
<1>4. ds[0] = d /\ ns[0] = n /\ ds[Len(q)] = d /\ ns[Len(q)] = n
  BY <1>1, <1>2
<1>5. ASSUME NEW i \in 1 .. Len(q)
      PROVE  Leads(order, q[i], ds[i - 1], ns[i - 1], ds[i], ns[i])
  <2>1. i \in 0 .. Len(q) /\ i - 1 \in 0 .. Len(q)
    BY <1>2
  <2>2. ds[i - 1] = d /\ ns[i - 1] = n /\ ds[i] = d /\ ns[i] = n
    BY <1>1, <2>1
  <2>3. q[i].cmd \in {"access", "error", "sync"}
    BY <1>2
  <2>4. Leads(order, q[i], d, n, d, n)
    BY <2>3 DEF Leads, Landing
  <2> QED
    BY <2>2, <2>4
<1>6. Path(order, held, t, q, s, ds, ns)
  BY <1>3, <1>4, <1>5 DEF Path
<1> QED
  BY <1>6 DEF Follows

\* A resume that finds the page at the version of its document.
LEMMA FollowsInTune ==
    ASSUME NEW order, NEW held, NEW t \in Tab, NEW q \in Seq(Down), NEW s, Follows(order, held, t, q, s),
           \A j \in DOMAIN q : q[j].cmd \in {"access", "error"},
           NEW m \in Down, m.cmd = "sync", t.version = Len(order[t.model])
    PROVE  Follows(order, held, t, q \o << m >>, t.model)
<1>1. PICK r : r = q \o << m >>
  OBVIOUS
<1>2. r \in Seq(Down) /\ \A j \in DOMAIN r : r[j].cmd \in {"access", "error", "sync"}
  <2>1. << m >> \in Seq(Down) /\ DOMAIN << m >> = {1} /\ << m >>[1] = m
    BY OneMessage
  <2>2. PICK x : x = << m >>
    OBVIOUS
  <2>3. x \in Seq(Down) /\ DOMAIN x = {1} /\ x[1] = m
    BY <2>1, <2>2
  <2>4. /\ r = q \o x /\ r \in Seq(Down)
        /\ \A i \in DOMAIN q : r[i] = q[i]
        /\ \A i \in DOMAIN x : r[Len(q) + i] = x[i]
        /\ \A i \in DOMAIN r : i \in DOMAIN q \/ \E j \in DOMAIN x : i = Len(q) + j
    BY <1>1, <2>2, <2>3, JoinAt
  <2> QED
    BY <2>3, <2>4
<1>3. PICK d, n : Path(order, held, t, q, s, d, n)
  BY DEF Follows
<1>4. CASE Shows(t)
  <2>1. t.model \in held /\ Begins(order, t.model, t.version, t.holds) /\ t.version \in Nat
    BY <1>3, <1>4, TabFields DEF Path
  <2>2. PICK v, w : v = t.model /\ w = t.version
    OBVIOUS
  <2>3. /\ v \in held \cup {None} /\ w \in Nat
        /\ Shows(t) => v = t.model /\ w = t.version /\ t.model \in held /\ Begins(order, t.model, t.version, t.holds)
        /\ v # None /\ v # None => v = v /\ w = Len(order[v])
    BY <2>1, <2>2
  <2>4. Follows(order, held, t, r, v)
    BY <1>2, <2>3, FollowsStill
  <2> QED
    BY <1>1, <2>2, <2>4
<1>5. CASE ~Shows(t)
  <2>1. PICK none, zero, v : none = None /\ zero = 0 /\ v = t.model
    OBVIOUS
  <2>2. none \in held \cup {None} /\ zero \in Nat /\ (none # None /\ v # None => none = v /\ zero = Len(order[v]))
    BY <2>1
  <2>3. Follows(order, held, t, r, v)
    BY <1>2, <1>5, <2>2, FollowsStill
  <2> QED
    BY <1>1, <2>1, <2>3
<1> QED
  BY <1>4, <1>5

LEMMA ReadResumeTells ==
    ASSUME Inv, Tale, NEW p \in Page, up[p] # << >>, NEW m, m = Head(up[p]), ReadResume(p, m), UNCHANGED tab
    PROVE  Tale'
<1>1. CASE ~CanRead(m.diagram, p)
  <2>1. Refuse(p, NoEdit)
    BY <1>1 DEF ReadResume
  <2> QED
    BY <2>1, RefuseTells DEF NoEdit
<1>2. CASE CanRead(m.diagram, p)
  <2> DEFINE d == m.diagram
  <2>1. /\ m.cmd = "resume" /\ seat' = [seat EXCEPT ![p] = d]
        /\ Answer(p, IF m.version = Cardinality(doc[d]) THEN <<[cmd |-> "sync"]>> ELSE <<Snapshot(d, p)>>)
        /\ UNCHANGED <<shipped, owner, gone, grants, doc, fork, forkOf>>
    BY <1>2 DEF ReadResume
  <2>2. d \in Doc /\ TypeOK /\ Recalls
    BY <1>2, ReadableIsDoc DEF Inv, Tale
  <2>3. CASE m.version # Cardinality(doc[d])
    <3>1. Snapshot(d, p)' = Snapshot(d, p)
      BY <2>1 DEF Snapshot, CanWrite, CanRead, Here, Minted
    <3>2. Take(p, d)
      <4>1. Answer(p, <<Snapshot(d, p)>>)
        BY <2>1, <2>3
      <4> QED
        BY <2>1, <3>1, <4>1 DEF Take, Answer
    <3> QED
      BY <1>2, <2>1, <3>2, TakenTells
  <2>4. CASE m.version = Cardinality(doc[d])
    <3>1. PICK x : x = [cmd |-> "sync"]
      OBVIOUS
    <3>2. x \in Down /\ x.cmd = "sync"
      BY <3>1, IsDown
    <3>3. PICK ms : ms = << x >>
      OBVIOUS
    <3>4. ms \in Seq(Down) /\ Answer(p, ms)
      BY <2>1, <2>4, <3>1, <3>2, <3>3, OneMessage
    <3>5. PICK order : Orders(order, doc) /\ \A q \in Page : Follows(order, Held, tab[q], down[q], seat[q])
      BY DEF Tale, Story
    <3>6. PICK held, t, q, s : held = Held /\ t = tab[p] /\ q = down[p] /\ s = seat[p]
      OBVIOUS
    <3>7. t \in Tab /\ q \in Seq(Down) /\ Follows(order, held, t, q, s)
      BY <2>2, <3>5, <3>6 DEF TypeOK
    <3>8. d = t.model /\ \A j \in DOMAIN q : q[j].cmd \in {"access", "error"}
      BY <2>1, <3>6, ReadIs
    <3>9. t.version = Len(order[t.model])
      <4>1. m = up[p][1] /\ 1 \in DOMAIN up[p]
        <5>1. up[p] \in Seq(Up)
          BY <2>2 DEF TypeOK
        <5> QED
          BY <5>1
      <4>2. m.version = t.version
        BY <2>1, <2>2, <3>6, <4>1 DEF Recalls
      <4>3. Cardinality(doc[d]) = Len(order[d])
        BY <2>2, <3>5 DEF Orders
      <4> QED
        BY <2>4, <3>8, <4>2, <4>3
    <3>10. Follows(order, held, t, q \o << x >>, t.model)
      BY <3>2, <3>7, <3>8, <3>9, FollowsInTune
    <3>11. seat'[p] = d /\ \A i \in Page \ {p} : seat'[i] = seat[i]
      BY <2>1, <2>2 DEF TypeOK
    <3>12. Held' = Held
      BY <2>1 DEF Held, Minted
    <3>13. Follows(order, Held', tab[p], down[p] \o ms, seat'[p])
      BY <3>3, <3>6, <3>8, <3>10, <3>11, <3>12
    <3>14. Orders(order, doc') /\ (\A i \in Held : order[i] = order[i]) /\ \A i \in Minted : owner'[i] = owner[i]
      BY <2>1, <3>5
    <3> QED
      BY <2>2, <3>4, <3>5, <3>11, <3>13, <3>14, AnswerTells, SMTT(60)
  <2> QED
    BY <2>3, <2>4
<1> QED
  BY <1>1, <1>2

LEMMA TwoMessages ==
    ASSUME NEW A, NEW x \in A, NEW y \in A
    PROVE  << x >> \o << y >> = << x, y >>
<1> DEFINE z == << x >> \o << y >>
<1>1. << x >> \in Seq(A) /\ Len(<< x >>) = 1 /\ << x >>[1] = x /\ << y >> \in Seq(A) /\ Len(<< y >>) = 1 /\ << y >>[1] = y
  BY OneMessage
<1>2. z \in Seq(A) /\ Len(z) = 2 /\ z[1] = x /\ z[2] = y
  BY <1>1
<1>3. << x, y >> \in Seq(A) /\ Len(<< x, y >>) = 2 /\ << x, y >>[1] = x /\ << x, y >>[2] = y
  OBVIOUS
<1> HIDE DEF z
<1>4. \A i \in 1 .. 2 : i = 1 \/ i = 2
  OBVIOUS
<1>5. z = << x, y >>
  BY <1>2, <1>3, <1>4, SeqEqual
<1> QED
  BY <1>5 DEF z

LEMMA ForksTells ==
    ASSUME Inv, Tale, NEW p \in Page, up[p] # << >>, NEW m \in Up, m.cmd = "commit", Forks(p, m), UNCHANGED tab
    PROVE  Tale'
<1>1. PICK f \in Diagram \ Minted :
        /\ Mint(f, p, doc[Template] \cup {m.e})
        /\ seat' = [seat EXCEPT ![p] = f]
        /\ Answer(p, <<[cmd |-> "forked", diagram |-> f],
                       [cmd |-> "ack", e |-> m.e, version |-> 1, replayed |-> FALSE]>>)
  BY DEF Forks
<1>2. TypeOK /\ Recalls /\ m.e \in Edit /\ f \in Doc /\ f # Template /\ Template \in Doc
  BY UpFields, Named DEF Inv, Tale, Doc
<1>3. /\ doc'[f] \subseteq Edit /\ \A i \in Doc \ {f} : doc'[i] = doc[i]
      /\ \A i \in Minted : owner'[i] = owner[i]
  BY <1>1, <1>2 DEF TypeOK, Mint, Minted
<1>4. PICK order : Orders(order, doc) /\ \A q \in Page : Follows(order, Held, tab[q], down[q], seat[q])
  BY DEF Tale, Story
<1>5. PICK docs, then : docs = doc /\ then = doc'
  OBVIOUS
<1>6. Orders(order, docs) /\ then[f] \subseteq Edit /\ \A i \in Doc \ {f} : then[i] = docs[i]
  BY <1>3, <1>4, <1>5
<1>7. PICK new : Orders(new, then) /\ \A i \in Doc \ {f} : new[i] = order[i]
  BY <1>2, <1>6, MintedOrder
<1>8. f \notin Held /\ Held \subseteq Doc
  BY <1>1, <1>2 DEF Held, Minted, Doc
<1>9. Orders(new, doc') /\ \A i \in Held : new[i] = order[i]
  BY <1>5, <1>7, <1>8
<1>10. PICK x, y : x = [cmd |-> "forked", diagram |-> f]
                   /\ y = [cmd |-> "ack", e |-> m.e, version |-> 1, replayed |-> FALSE]
  OBVIOUS
<1>11. x \in Down /\ y \in Down /\ x.cmd = "forked" /\ y.cmd = "ack"
  BY <1>2, <1>10, IsDown
<1>12. PICK held, more, t, q, s, at : /\ held = Held /\ more = Held' /\ t = tab[p] /\ q = down[p]
                                      /\ s = seat[p] /\ at = seat'[p]
  OBVIOUS
<1>13. /\ order \in History /\ new \in History /\ held \in SUBSET Doc /\ more \in SUBSET Doc /\ held \subseteq more
       /\ \A i \in held : new[i] = order[i]
  BY <1>3, <1>4, <1>9, <1>12, HeldGrows DEF Orders
<1>14. Extends(order, new, held)
  BY <1>13, ExtendsSame
<1>15. t \in Tab /\ q \in Seq(Down) /\ Follows(order, held, t, q, s)
  BY <1>2, <1>4, <1>12 DEF TypeOK
<1>16. PICK none : none = None
  OBVIOUS
<1>17. Follows(new, more, t, q, none)
  BY <1>13, <1>14, <1>15, <1>16, FollowsOn
<1>18. Follows(new, more, t, (q \o << x >>) \o << y >>, at)
  BY <1>11, <1>13, <1>15, <1>17, FollowsForked
<1>19. PICK ms : ms = << x, y >>
  OBVIOUS
<1>20. ms \in Seq(Down) /\ (q \o << x >>) \o << y >> = q \o ms
  <2>1. << x >> \in Seq(Down) /\ << y >> \in Seq(Down) /\ << x, y >> \in Seq(Down)
    BY <1>11
  <2>2. << x >> \o << y >> = << x, y >>
    BY <1>11, TwoMessages
  <2>3. PICK a, b : a = << x >> /\ b = << y >>
    OBVIOUS
  <2>4. (q \o a) \o b = q \o (a \o b)
    BY <1>15, <2>1, <2>3, ConcatAssociative
  <2> QED
    BY <1>19, <2>1, <2>2, <2>3, <2>4
<1>21. Answer(p, ms) /\ \A i \in Page \ {p} : seat'[i] = seat[i]
  BY <1>1, <1>2, <1>10, <1>19 DEF TypeOK
<1>22. Follows(new, Held', tab[p], down[p] \o ms, seat'[p])
  BY <1>12, <1>18, <1>20
<1> QED
  BY <1>2, <1>3, <1>4, <1>9, <1>20, <1>21, <1>22, AnswerTells, SMTT(60)

\* An edit lands: its page and the others there take it at the version it has.
LEMMA LandingTells ==
    ASSUME Inv, Tale, NEW p \in Page, up[p] # << >>, NEW m \in Up, m.cmd = "commit",
           NEW d, d = seat[p], d # None, d # Template, Known(d), m.e \notin doc[d],
           doc' = Landed(d, m.e), Spread(p, m.e, d, Cardinality(doc[d]) + 1),
           up' = [up EXCEPT ![p] = Tail(@)], UNCHANGED <<owner, seat, tab>>
    PROVE  Tale'
<1>1. TypeOK /\ Recalls /\ m.e \in Edit
  BY UpFields DEF Inv, Tale
<1>2. d \in Minted /\ d \in Doc /\ d \in Held
  BY DEF Known, Here, Minted, Doc, Held
<1>3. doc[d] \subseteq Edit /\ doc'[d] = doc[d] \cup {m.e} /\ \A i \in Doc \ {d} : doc'[i] = doc[i]
  BY <1>1, <1>2 DEF TypeOK, Landed
<1>4. PICK order : Orders(order, doc) /\ \A q \in Page : Follows(order, Held, tab[q], down[q], seat[q])
  BY DEF Tale, Story
<1>5. PICK docs, then, e : docs = doc /\ then = doc' /\ e = m.e
  OBVIOUS
<1>6. /\ Orders(order, docs) /\ docs[d] \subseteq Edit /\ e \in Edit /\ e \notin docs[d]
      /\ then[d] = docs[d] \cup {e} /\ \A i \in Doc \ {d} : then[i] = docs[i]
  BY <1>1, <1>3, <1>4, <1>5
<1>20. PICK new : Orders(new, then) /\ Adds(order, new, d, e)
  BY <1>2, <1>6, LandedOrder
<1>7. /\ Orders(new, then) /\ \A i \in Doc \ {d} : new[i] = order[i]
      /\ Len(new[d]) = Len(order[d]) + 1 /\ new[d][Len(order[d]) + 1] = e
      /\ \A i \in 1 .. Len(order[d]) : new[d][i] = order[d][i]
  BY <1>20 DEF Adds
<1>8. PICK held : held = Held
  OBVIOUS
<1>9. order \in History /\ new \in History /\ held \in SUBSET Doc /\ d \in held /\ Held' = held
  BY <1>2, <1>4, <1>7, <1>8 DEF Orders, Held, Minted, Doc
<1>10. Extends(order, new, held)
  <2>1. ASSUME NEW i \in held
        PROVE  Len(order[i]) <= Len(new[i]) /\ \A k \in 1 .. Len(order[i]) : new[i][k] = order[i][k]
    <3>1. Len(order[i]) \in Nat
      BY <1>9, OrderFields
    <3>2. CASE i = d
      BY <1>7, <3>1, <3>2
    <3>3. CASE i # d
      <4>1. new[i] = order[i]
        BY <1>7, <1>9, <3>3
      <4> QED
        BY <3>1, <4>1
    <3> QED
      BY <3>2, <3>3
  <2> QED
    BY <2>1 DEF Extends
<1>11. PICK v : v = Cardinality(doc[d]) + 1
  OBVIOUS
<1>12. v = Len(order[d]) + 1 /\ v \in Nat
  <2>1. Cardinality(doc[d]) = Len(order[d]) /\ Len(order[d]) \in Nat
    BY <1>2, <1>4, <1>9, OrderFields DEF Orders
  <2> QED
    BY <1>11, <2>1
<1>13. PICK x, y : x = [cmd |-> "ack", e |-> e, version |-> v, replayed |-> FALSE]
                   /\ y = [cmd |-> "change", e |-> e, version |-> v]
  OBVIOUS
<1>14. /\ x \in Down /\ y \in Down /\ Landing(x) /\ Landing(y)
       /\ x.version = v /\ y.version = v /\ x.e = e /\ y.e = e
  BY <1>6, <1>12, <1>13, IsDown DEF Landing
<1>15. up \in [Page -> Seq(Up)] /\ down \in [Page -> Seq(Down)] /\ tab \in [Page -> Tab]
  BY <1>1 DEF TypeOK
<1>16. ASSUME NEW q \in Page
       PROVE  Follows(new, Held', tab'[q], down'[q], seat'[q])
  <2>1. PICK t, z, s : t = tab[q] /\ z = down[q] /\ s = seat[q]
    OBVIOUS
  <2>2. t \in Tab /\ z \in Seq(Down) /\ Follows(order, held, t, z, s)
    BY <1>4, <1>8, <1>15, <2>1
  <2>3. Append(z, x) = z \o << x >> /\ Append(z, y) = z \o << y >>
    BY <1>14, <2>2, AppendIsConcat
  <2>4. down'[q] = IF q = p THEN Append(z, x) ELSE IF s = d THEN Append(z, y) ELSE z
    BY <1>5, <1>11, <1>13, <2>1 DEF Spread
  <2>5. CASE s = d
    <3>1. PICK w : w \in {x, y} /\ down'[q] = z \o << w >>
      BY <2>3, <2>4, <2>5
    <3>2. /\ w \in Down /\ Landing(w) /\ w.version = Len(order[s]) + 1 /\ s \in held
          /\ Len(new[s]) = Len(order[s]) + 1 /\ w.e = new[s][Len(order[s]) + 1]
      BY <1>7, <1>9, <1>12, <1>14, <2>5, <3>1
    <3>3. Follows(new, held, t, z \o << w >>, s)
      BY <1>9, <1>10, <2>2, <3>2, FollowsLanding
    <3> QED
      BY <1>9, <2>1, <3>1, <3>3
  <2>6. CASE s # d
    <3>1. q # p /\ down'[q] = z
      BY <2>1, <2>4, <2>6
    <3>2. s \in held => Len(new[s]) = Len(order[s])
      BY <1>7, <1>9, <2>6
    <3>3. Follows(new, held, t, z, s)
      BY <1>9, <1>10, <2>2, <3>2, FollowsOn
    <3> QED
      BY <1>9, <2>1, <3>1, <3>3
  <2> QED
    BY <2>5, <2>6
<1>17. \A q \in Page : Follows(new, Held, tab[q], down[q], seat[q])'
  BY <1>16
<1>18. Recalls'
  <2>1. \A q \in Page : up'[q] = up[q] \/ (up[q] # << >> /\ up'[q] = Tail(up[q]))
    BY <1>15
  <2> QED
    BY <1>1, <2>1, RecallsRead
<1>19. Orders(new, doc)'
  BY <1>5, <1>7 DEF Orders
<1> QED
  BY <1>17, <1>18, <1>19 DEF Tale, Story

LEMMA ReadCommitTells ==
    ASSUME Inv, Tale, NEW p \in Page, up[p] # << >>, NEW m \in Up, ReadCommit(p, m), UNCHANGED tab
    PROVE  Tale'
<1> DEFINE d == seat[p]
<1>1. m.cmd = "commit" /\ m.e \in Edit /\ m.e \in Edit \cup {0}
  BY UpFields DEF ReadCommit
<1>2. CASE Refuse(p, NoEdit) \/ Refuse(p, m.e)
  BY <1>1, <1>2, RefuseTells DEF NoEdit
<1>3. CASE Forks(p, m)
  BY <1>1, <1>3, ForksTells
<1>4. CASE /\ Answer(p, <<[cmd |-> "ack", e |-> m.e, version |-> Cardinality(doc[d]), replayed |-> TRUE]>>)
           /\ UNCHANGED <<server, forkOf>> /\ d # None /\ Known(d)
  <2> DEFINE v == Cardinality(doc[d])
  <2>1. v \in Nat
    <3>1. d \in Doc
      BY <1>4 DEF Known, Doc, Here, Minted
    <3>2. doc[d] \subseteq Edit
      BY <3>1 DEF Inv, TypeOK
    <3> QED
      BY <3>2, EditsFinite
  <2>2. PICK x : x = [cmd |-> "ack", e |-> m.e, version |-> v, replayed |-> TRUE]
    OBVIOUS
  <2>3. Answer(p, << x >>)
    BY <1>4, <2>2
  <2> HIDE DEF v
  <2>4. x \in Down /\ x.cmd = "ack" /\ x.replayed
    BY <1>1, <2>1, <2>2, IsDown
  <2>5. x.cmd \notin {"snapshot", "forked"} /\ ~Landing(x)
    BY <2>4 DEF Landing
  <2>6. /\ seat'[p] \in {seat[p], None} /\ (\A q \in Page \ {p} : seat'[q] = seat[q])
        /\ (\A i \in Minted : owner'[i] = owner[i]) /\ UNCHANGED <<doc, tab>>
    BY <1>4 DEF server
  <2> QED
    BY <2>3, <2>4, <2>5, <2>6, PlainTells
<1>5. CASE /\ d # None /\ d # Template /\ Known(d) /\ m.e \notin doc[d]
           /\ doc' = Landed(d, m.e) /\ Spread(p, m.e, d, Cardinality(doc[d]) + 1)
           /\ up' = [up EXCEPT ![p] = Tail(@)]
           /\ UNCHANGED <<shipped, owner, gone, grants, seat, fork, forkOf>>
  <2>1. PICK i : i = d
    OBVIOUS
  <2>2. Spread(p, m.e, i, Cardinality(doc[i]) + 1)
    BY <1>5, <2>1
  <2>3. /\ i = seat[p] /\ i # None /\ i # Template /\ Known(i) /\ m.e \notin doc[i]
        /\ doc' = Landed(i, m.e) /\ up' = [up EXCEPT ![p] = Tail(@)] /\ UNCHANGED <<owner, seat, tab>>
    BY <1>5, <2>1
  <2> QED
    BY <1>1, <2>2, <2>3, LandingTells
<1> QED
  BY <1>2, <1>3, <1>4, <1>5 DEF ReadCommit, Spread

LEMMA ReadTells ==
    ASSUME Inv, Tale, NEW p \in Page, Read(p)
    PROVE  Tale'
<1>1. /\ up[p] # << >> /\ UNCHANGED tab /\ Head(up[p]) \in Up
      /\ \/ ReadHello(p, Head(up[p])) \/ ReadOpen(p, Head(up[p])) \/ ReadResume(p, Head(up[p]))
         \/ ReadCreate(p, Head(up[p])) \/ ReadDelete(p, Head(up[p])) \/ ReadCommit(p, Head(up[p]))
  BY ReadIs DEF Read
<1> QED
  BY <1>1, ReadHelloTells, ReadOpenTells, ReadResumeTells, ReadCreateTells, ReadDeleteTells, ReadCommitTells

\* A session that is moved elsewhere: its page is told where to, whole, or that it is nowhere.
LEMMA MovedTells ==
    ASSUME TypeOK, NEW q \in Page, NEW new, new[q] \in Ids, new[q] = seat[q] \/ new[q] = None \/ new[q] \in Held',
           \A i \in Minted : owner'[i] = owner[i], UNCHANGED doc,
           NEW order, Orders(order, doc), Follows(order, Held, tab[q], down[q], seat[q])
    PROVE  /\ Follows(order, Held', tab[q], down[q] \o Moved(q, new), new[q])
           /\ down[q] \o Moved(q, new) \in Seq(Down)
<1>1. PICK held, more, t, z, s, then : /\ held = Held /\ more = Held' /\ t = tab[q] /\ z = down[q]
                                       /\ s = seat[q] /\ then = new[q]
  OBVIOUS
<1>2. /\ order \in History /\ held \in SUBSET Doc /\ more \in SUBSET Doc /\ held \subseteq more
  BY <1>1, HeldGrows DEF Orders
<1>3. Extends(order, order, held)
  BY <1>2, ExtendsSame
<1>4. t \in Tab /\ z \in Seq(Down) /\ Follows(order, held, t, z, s)
  BY <1>1 DEF TypeOK
<1>5. Follows(order, more, t, z, s)
  BY <1>2, <1>3, <1>4, FollowsOn
<1>6. CASE then = s
  <2>1. Moved(q, new) = << >>
    BY <1>1, <1>6 DEF Moved
  <2>2. z \o << >> = z
    BY <1>4
  <2> QED
    BY <1>1, <1>4, <1>5, <1>6, <2>1, <2>2
<1>7. CASE then # s /\ then = None
  <2>1. PICK x : x = Error(NoEdit)
    OBVIOUS
  <2>2. x \in Down /\ x.cmd = "error"
    BY <2>1, IsDown DEF Error, NoEdit
  <2>3. x.cmd \notin {"snapshot", "forked"} /\ ~Landing(x) /\ then \in {s, None}
    BY <1>7, <2>2 DEF Landing
  <2>4. Follows(order, more, t, z \o << x >>, then)
    BY <1>2, <1>5, <1>4, <2>2, <2>3, FollowsPlain
  <2>5. Moved(q, new) = << x >> /\ << x >> \in Seq(Down)
    BY <1>1, <1>7, <2>1, <2>2, OneMessage DEF Moved
  <2> QED
    BY <1>1, <1>4, <2>4, <2>5
<1>8. CASE then # s /\ then # None
  <2>1. then \in Doc /\ then \in more
    BY <1>1, <1>2, <1>8
  <2>2. PICK x : x = Snapshot(then, q)'
    OBVIOUS
  <2>3. x \in Down /\ x.cmd = "snapshot" /\ x.diagram = then /\ x.doc = doc'[then]
    <3>1. doc' \in [Doc -> SUBSET Edit]
      BY DEF TypeOK
    <3> QED
      BY <2>1, <2>2, <3>1, SnapshotIs, SnapshotDoc
  <2>4. x.doc = {order[x.diagram][i] : i \in 1 .. Len(order[x.diagram])} /\ Cardinality(x.doc) = Len(order[x.diagram])
    BY <2>1, <2>3 DEF Orders
  <2>5. Follows(order, more, t, z \o << x >>, x.diagram)
    BY <1>2, <1>4, <1>5, <2>1, <2>3, <2>4, FollowsSnapshot
  <2>6. Moved(q, new) = << x >> /\ << x >> \in Seq(Down)
    BY <1>1, <1>8, <2>2, <2>3, OneMessage DEF Moved
  <2> QED
    BY <1>1, <1>4, <2>3, <2>5, <2>6
<1> QED
  BY <1>6, <1>7, <1>8

\* Sessions moved while nothing is drawn, written or forked, each page told.
LEMMA MovesTell ==
    ASSUME TypeOK, Tale, UNCHANGED <<doc, up, tab>>, \A i \in Minted : owner'[i] = owner[i],
           NEW new \in [Page -> Ids], seat' = new,
           \A q \in Page : new[q] = seat[q] \/ new[q] = None \/ new[q] \in Held',
           \A q \in Page : \/ down'[q] = down[q] \o Moved(q, new)
                           \/ \E x \in Down : x.cmd = "access" /\ down'[q] = (down[q] \o Moved(q, new)) \o << x >>
    PROVE  Tale'
<1>1. PICK order : Orders(order, doc) /\ \A q \in Page : Follows(order, Held, tab[q], down[q], seat[q])
  BY DEF Tale, Story
<1>2. Recalls'
  BY RecallsRead DEF Tale
<1>3. ASSUME NEW q \in Page
      PROVE  Follows(order, Held', tab[q], down'[q], new[q])
  <2>1. PICK more, t, z, then : more = Held' /\ t = tab[q] /\ z = down[q] \o Moved(q, new) /\ then = new[q]
    OBVIOUS
  <2>2. new[q] \in Ids /\ (new[q] = seat[q] \/ new[q] = None \/ new[q] \in Held')
    OBVIOUS
  <2>3. Follows(order, more, t, z, then) /\ z \in Seq(Down)
    BY <1>1, <2>1, <2>2, MovedTells
  <2>4. CASE \E x \in Down : x.cmd = "access" /\ down'[q] = z \o << x >>
    <3>1. PICK x \in Down : x.cmd = "access" /\ down'[q] = z \o << x >>
      BY <2>4
    <3>2. x.cmd \notin {"snapshot", "forked"} /\ ~Landing(x) /\ then \in {then, None}
      BY <3>1 DEF Landing
    <3>3. order \in History /\ more \in SUBSET Doc
      BY <1>1, <2>1, HeldGrows DEF Orders
    <3>4. Follows(order, more, t, z \o << x >>, then)
      BY <2>3, <3>2, <3>3, FollowsPlain
    <3> QED
      BY <2>1, <3>1, <3>4
  <2>5. CASE down'[q] = z
    BY <2>1, <2>3, <2>5
  <2> QED
    BY <2>1, <2>4, <2>5
<1>4. Orders(order, doc)' /\ \A q \in Page : Follows(order, Held, tab[q], down[q], seat[q])'
  BY <1>1, <1>3 DEF Orders
<1> QED
  BY <1>2, <1>4 DEF Tale, Story

LEMMA ReadableHeld ==
    \A p \in Page : \A d \in Firsts(p) : d = None \/ d \in Held
<1>1. \A p \in Page : \A d \in Doc : CanRead(d, p) => d \in Held
  BY DEF CanRead, Held, Here, Minted
<1> QED
  BY <1>1, FirstsRead
LEMMA ReadableThen ==
    (\A p \in Page : \A d \in Firsts(p) : d = None \/ d \in Held)'
  BY ReadableHeld, PTL

LEMMA GrantTells ==
    ASSUME Inv, Tale, NEW d \in Diagram, NEW p \in Page, NEW l \in Level, Grant(d, p, l)
    PROVE  Tale'
<1>1. UNCHANGED <<owner, doc, up, open, tab>>
  BY DEF Grant
<1>2. PICK new \in [Page -> Ids] :
          /\ Leave(new) /\ seat' = new
          /\ down' = [q \in Page |-> IF open[q] THEN down[q] \o Moved(q, new) \o <<[cmd |-> "access"]>>
                                     ELSE down[q]]
  BY Zenon DEF Grant, Ids
<1>3. TypeOK /\ Closed
  BY DEF Inv, Wire
<1>4. ASSUME NEW q \in Page
      PROVE  new[q] = seat[q] \/ (seat[q] # None /\ (new[q] = None \/ new[q] \in Held'))
  <2>1. PICK was : was = seat[q]
    OBVIOUS
  <2>2. CASE was # None /\ ~CanRead(was, q)'
    <3>1. new[q] \in Firsts(q)'
      BY <1>2, <2>1, <2>2 DEF Leave
    <3> QED
      BY <2>1, <2>2, <3>1, ReadableThen
  <2>3. CASE ~(was # None /\ ~CanRead(was, q)')
    BY <1>2, <2>1, <2>3 DEF Leave
  <2> QED
    BY <2>2, <2>3
<1>5. ASSUME NEW q \in Page
      PROVE  \/ down'[q] = down[q] \o Moved(q, new)
             \/ \E x \in Down : x.cmd = "access" /\ down'[q] = (down[q] \o Moved(q, new)) \o << x >>
  <2>1. CASE open[q]
    <3>1. PICK x : x = [cmd |-> "access"]
      OBVIOUS
    <3>2. x \in Down /\ x.cmd = "access"
      BY <3>1, IsDown
    <3>3. down'[q] = (down[q] \o Moved(q, new)) \o << x >>
      BY <1>2, <2>1, <3>1
    <3> QED
      BY <3>2, <3>3
  <2>2. CASE ~open[q]
    <3>1. seat[q] = None /\ down[q] = << >> /\ new[q] = seat[q]
      BY <1>3, <1>4, <2>2 DEF Closed
    <3>2. Moved(q, new) = << >> /\ << >> \o << >> = << >>
      BY <3>1, NothingTold DEF Moved
    <3>3. down'[q] = down[q]
      BY <1>2, <2>2
    <3> QED
      BY <3>1, <3>2, <3>3
  <2> QED
    BY <2>1, <2>2
<1> QED
  BY <1>1, <1>2, <1>3, <1>4, <1>5, MovesTell

LEMMA RestDeleteTells ==
    ASSUME Inv, Tale, NEW d \in Diagram, NEW by \in Page, RestDelete(d, by)
    PROVE  Tale'
<1>1. Reseeds(by, d) /\ UNCHANGED <<doc, up, tab>>
  BY DEF RestDelete
<1>2. PICK new \in [Page -> Ids] :
          /\ \A p \in Page : IF seat[p] = d /\ Firsts(p)' # {None} THEN new[p] \in Firsts(p)'
                             ELSE new[p] = seat[p]
          /\ seat' = new
          /\ down' = [q \in Page |-> down[q] \o Moved(q, new)]
  BY Zenon DEF RestDelete, Ids
<1>3. TypeOK
  BY DEF Inv
<1>4. \A i \in Minted : owner'[i] = owner[i]
  BY <1>1, <1>3, ReseedsIs
<1>5. \A q \in Page : new[q] = seat[q] \/ new[q] = None \/ new[q] \in Held'
  BY <1>2, ReadableThen
<1>6. \A q \in Page : down'[q] = down[q] \o Moved(q, new)
  BY <1>2
<1> QED
  BY <1>1, <1>2, <1>3, <1>4, <1>5, <1>6, MovesTell

-----------------------------------------------------------------------------
(* The story holds                                                          *)

LEMMA InitTale ==
    Init => Tale
<1> SUFFICES ASSUME Init PROVE Tale
  OBVIOUS
<1>1. << >> \in Seq(Edit) /\ << >> \in Seq(Down) /\ Len(<< >>) = 0 /\ DOMAIN << >> = {}
  OBVIOUS
<1>2. PICK none, zero, order : none = None /\ zero = 0 /\ order = [d \in Doc |-> << >>]
  OBVIOUS
<1>3. Orders(order, doc)
  <2>1. order \in History
    BY <1>1, <1>2 DEF History
  <2>2. ASSUME NEW d \in Doc
        PROVE  doc[d] = {order[d][i] : i \in 1 .. Len(order[d])} /\ Cardinality(doc[d]) = Len(order[d])
    <3>1. doc[d] = {} /\ order[d] = << >> /\ Len(order[d]) = 0
      BY <1>1, <1>2 DEF Init
    <3>2. Cardinality(doc[d]) = 0
      BY <3>1, FS_EmptySet
    <3> QED
      BY <3>1, <3>2
  <2> QED
    BY <2>1, <2>2 DEF Orders
<1>4. ASSUME NEW p \in Page
      PROVE  Follows(order, Held, tab[p], down[p], seat[p])
  <2>1. PICK t, q, s, held : t = tab[p] /\ q = down[p] /\ s = seat[p] /\ held = Held
    OBVIOUS
  <2>2. q = << >> /\ t = NewTab(None)
    BY <2>1 DEF Init
  <2>3. q \in Seq(Down) /\ \A j \in DOMAIN q : q[j].cmd \in {"access", "error", "sync"}
    BY <1>1, <2>2
  <2>4. ~Shows(t)
    BY <2>2 DEF Shows, NewTab
  <2>5. none \in held \cup {None} /\ zero \in Nat /\ (none # None /\ s # None => none = s /\ zero = Len(order[s]))
    BY <1>2
  <2>6. Follows(order, held, t, q, s)
    BY <2>3, <2>4, <2>5, FollowsStill
  <2> QED
    BY <2>1, <2>6
<1>5. Recalls
  <2>1. \A p \in Page : up[p] = << >>
    BY DEF Init
  <2> QED
    BY <1>1, <2>1 DEF Recalls
<1> QED
  BY <1>3, <1>4, <1>5 DEF Tale, Story

LEMMA StutterTells ==
    Tale /\ UNCHANGED vars => Tale'
<1> SUFFICES ASSUME Tale, UNCHANGED vars PROVE Tale'
  OBVIOUS
<1>1. UNCHANGED <<owner, doc, seat, up, down, tab>>
  BY DEF vars, server
<1>2. Recalls'
  BY <1>1 DEF Tale, Recalls
<1>3. PICK order : Orders(order, doc) /\ \A q \in Page : Follows(order, Held, tab[q], down[q], seat[q])
  BY DEF Tale, Story
<1>4. Held' = Held
  BY <1>1 DEF Held, Minted
<1>5. Orders(order, doc)' /\ \A q \in Page : Follows(order, Held, tab[q], down[q], seat[q])'
  BY <1>1, <1>3, <1>4
<1> QED
  BY <1>2, <1>5 DEF Tale, Story

LEMMA NextTells ==
    Inv /\ Tale /\ [Next]_vars => Tale'
<1> SUFFICES ASSUME Inv, Tale, Next PROVE Tale'
  BY StutterTells
<1>1. PICK p \in Page :
        \/ Draw(p) \/ CreateDiagram(p) \/ DeleteDiagram(p) \/ ReadOnlyPulse(p)
        \/ \E d \in Doc : OpenDiagram(p, d)
        \/ Hear(p) \/ Read(p)
        \/ \E d \in Diagram : RestDelete(d, p) \/ \E l \in Level : Grant(d, p, l)
        \/ Connect(p) \/ Drop(p) \/ Reload(p)
  BY Zenon DEF Next
<1>2. CASE Draw(p)
  BY <1>2, DrawTells
<1>3. CASE CreateDiagram(p) \/ DeleteDiagram(p) \/ \E d \in Doc : OpenDiagram(p, d)
  BY <1>3, AskingTells
<1>4. CASE ReadOnlyPulse(p)
  BY <1>4, ReadOnlyPulseTells
<1>5. CASE Hear(p)
  BY <1>5, HearTells
<1>6. CASE Read(p)
  BY <1>6, ReadTells
<1>7. CASE \E d \in Diagram : RestDelete(d, p)
  BY <1>7, RestDeleteTells
<1>8. CASE \E d \in Diagram : \E l \in Level : Grant(d, p, l)
  BY <1>8, GrantTells
<1>9. CASE Connect(p)
  BY <1>9, ConnectTells
<1>10. CASE Drop(p) \/ Reload(p)
  BY <1>10, GoneTells
<1> QED
  BY <1>1, <1>2, <1>3, <1>4, <1>5, <1>6, <1>7, <1>8, <1>9, <1>10

LEMMA TaleShows ==
    Tale => PagesShowTheirs
<1> SUFFICES ASSUME Tale, NEW p \in Page, Settled(p), tab[p].diagram = tab[p].model
             PROVE  tab[p].model = seat[p] /\ doc[seat[p]] \subseteq tab[p].holds
  BY DEF PagesShowTheirs
<1>1. PICK order : Orders(order, doc) /\ \A q \in Page : Follows(order, Held, tab[q], down[q], seat[q])
  BY DEF Tale, Story
<1>2. PICK t, q, s, held : t = tab[p] /\ q = down[p] /\ s = seat[p] /\ held = Held
  OBVIOUS
<1>3. PICK d, n : Path(order, held, t, q, s, d, n)
  BY <1>1, <1>2 DEF Follows
<1>4. Shows(t) /\ q = << >> /\ Len(q) = 0
  BY <1>2 DEF Settled, Quiet, Shows
<1>5. s # None /\ s \in Doc
  BY <1>2, SeatsAssumption DEF Settled, Known, Here, Minted, Doc
<1>6. t.model \in held /\ held \subseteq Doc /\ t.model # None
  BY <1>2, <1>3, <1>4, Named DEF Path, Held, Minted, Doc
<1>7. t.model = s /\ t.version = Len(order[s]) /\ Begins(order, t.model, t.version, t.holds)
  <2>1. d[Len(q)] = t.model /\ n[Len(q)] = t.version
    BY <1>3, <1>4 DEF Path
  <2>2. d[Len(q)] # None /\ s # None => d[Len(q)] = s /\ n[Len(q)] = Len(order[s])
    BY <1>3 DEF Path
  <2>3. Begins(order, t.model, t.version, t.holds)
    BY <1>3, <1>4 DEF Path
  <2> QED
    BY <1>5, <1>6, <2>1, <2>2, <2>3
<1>8. \A i \in 1 .. Len(order[s]) : order[s][i] \in t.holds
  BY <1>7 DEF Begins
<1>9. doc[s] \subseteq t.holds
  BY <1>1, <1>5, <1>8 DEF Orders
<1> QED
  BY <1>2, <1>7, <1>9

\* A page that has heard all it was sent and waits for nothing shows the diagram its
\* session is on and misses none of its edits, whatever was opened, forked, shared,
\* revoked and deleted meanwhile, by it and by others, and however often its socket
\* dropped (sync.js handle, applyChange, requestResync; protocol.js commit, resume,
\* announceAccess, retarget).
THEOREM PagesCatchUp == Spec => []PagesShowTheirs
<1>1. Init => Inv /\ Tale
  BY InitInv, InitTale
<1>2. Inv /\ Tale /\ [Next]_vars => (Inv /\ Tale)'
  BY NextKeeps, NextTells
<1>3. Inv /\ Tale => PagesShowTheirs
  BY TaleShows
<1> QED
  BY <1>1, <1>2, <1>3, PTL DEF Spec
=============================================================================

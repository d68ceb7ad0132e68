----------------------------- MODULE Planner -----------------------------
(***************************************************************************)
(* What an edit comes to: planner/txn.mjs `plan` with the reactions of the   *)
(* network's and the groups' tenants.  A request passes through its own ops, *)
(* each validated and followed by what it clears or displaces, then through *)
(* the phases reshape, stranded, sweep and join, and is refused as a whole   *)
(* if what came of it breaks a rule.                                         *)
(*                                                                         *)
(* A document is nodes (an anchor and whether what arrives passes), links,   *)
(* pipes and groups; positions, names and drawing are left out.  Anchors and *)
(* link ids are numbers, so that both are ordered as ids are; a link's order *)
(* is also its place in the Model's insertion order.                         *)
(***************************************************************************)
EXTENDS Integers, Sequences, FiniteSets, SequencesExt, FiniteSetsExt, Functions, TLC

CONSTANTS
    Bare, Through, Hosts,   \* anchors by routing pack: unrestricted, transit, endpoint
    Shapes,                 \* links a door may put: src, via, dst, closed, direction, control
    Drawn,                  \* ids they are put under
    Members, Groups,        \* members a group may be put with, and their ids
    HandPipes,              \* pairs a pipe may be laid by hand between
    Boards,                 \* what has been drawn to begin with: sequences of requests
    MaxEdits, MaxTurns,     \* bounds on the model: edits, turns of a board nobody edits,
    MaxTurnsEdited          \* and turns before and after an edit

Anchor == Bare \cup Through \cup Hosts
Undeclared == "undeclared"

ASSUME PlannerAssumption ==
    /\ Anchor \subseteq 1 .. 5
    /\ \A l \in Drawn : l \in Nat /\ l % 1000 = 0   \* room under each for the pieces it is cut into
    /\ \A s \in Shapes : {s.src, s.dst} \cup ToSet(s.via) \subseteq Anchor

-----------------------------------------------------------------------------
(* What a document says *)

Permits(a) == a \in Bare                      \* nodePermitsBend
Offers(a)  == a \in Bare \cup Through         \* nodeOffersTransit
StopsAt(d, a) == a \in DOMAIN d.node /\ ~d.node[a]

Pair(l)   == {l.src, l.dst}
Stops(l)  == <<l.src>> \o l.via \o <<l.dst>> \o (IF l.closed THEN <<l.src>> ELSE <<>>)
Legs(l)   == [i \in 1 .. Len(Stops(l)) - 1 |-> {Stops(l)[i], Stops(l)[i + 1]}]
At(l)     == {l.src, l.dst} \cup ToSet(l.via)
Bends(l, w) == w \in ToSet(l.via)
Straight(l) == l.via = <<>>
IsLoop(l) == ~l.closed /\ l.src = l.dst /\ Len(l.via) >= 2 /\ ~Bends(l, l.src)

\* linkReferential: one link against the rest of a document.
LinkRefers(d, id, l) ==
    LET roles == <<l.src>> \o l.via \o (IF IsLoop(l) THEN <<>> ELSE <<l.dst>>)
    IN  /\ At(l) \subseteq DOMAIN d.node
        /\ l.src # l.dst \/ IsLoop(l)
        /\ \A w \in ToSet(l.via) : Offers(w)
        /\ IsInjective(roles)
        /\ \A o \in DOMAIN d.link \ {id} :
              Pair(d.link[o]) = Pair(l) => ToSet(d.link[o].via) \cap ToSet(l.via) = {}

GroupRefers(d, members) == members \subseteq DOMAIN d.node
PipeRefers(d, pair)     == pair \subseteq DOMAIN d.node

\* violations, by key and measure: straight links on a pair, groups of a member, members of a group.
Excess(d) ==
    LET pairs   == {Pair(d.link[l]) : l \in {k \in DOMAIN d.link : Straight(d.link[k])}}
        on(p)   == Cardinality({l \in DOMAIN d.link : Straight(d.link[l]) /\ Pair(d.link[l]) = p}) - 1
        in(a)   == Cardinality({g \in DOMAIN d.group : a \in d.group[g]}) - 1
    IN  {<<p, on(p)>> : p \in {q \in pairs : on(q) > 0}}
        \cup {<<{a}, in(a)>> : a \in {b \in Anchor : in(b) > 0}}
        \cup {<<{-g}, 1>> : g \in {h \in DOMAIN d.group : Cardinality(d.group[h]) < 2}}

Introduces(before, after) ==
    \E v \in Excess(after) : \A w \in Excess(before) : w[1] = v[1] => v[2] > w[2]

InOrder(S, Before(_, _)) ==
    [i \in 1 .. Cardinality(S) |-> CHOOSE x \in S : Cardinality({y \in S : Before(y, x)}) = i - 1]
Ascending(ids) == InOrder(ids, <)
ByAge(links)   == InOrder(DOMAIN links, LAMBDA k, l : links[k].order < links[l].order
                                                   \/ (links[k].order = links[l].order /\ k < l))
NextOrder(links) == Max({links[l].order : l \in DOMAIN links} \cup {0}) + 1

-----------------------------------------------------------------------------
(* Routes over pipes *)

Precedes(p, q) == \E k \in DOMAIN p : p[k] < q[k] /\ SubSeq(p, 1, k - 1) = SubSeq(q, 1, k - 1)

\* The fewest pipes, breadth first in id order; the empty sequence if there is no way.
RECURSIVE Search(_, _, _, _)
Search(paths, open, to, passing) ==
    LET there == {p \in paths : Last(p) = to}
        on    == {p \in paths : Len(p) = 1 \/ Last(p) \in passing}
        next  == UNION {{Append(p, a) : a \in {b \in Anchor : {Last(p), b} \in open /\ b \notin ToSet(p)}} : p \in on}
    IN  IF there # {} THEN CHOOSE p \in there : \A q \in there \ {p} : Precedes(p, q)
        ELSE IF next = {} THEN <<>> ELSE Search(next, open, to, passing)

Route(open, from, to, passing) == Search({<<from>>}, open, to, passing)
Crossed(path) == {{path[i], path[i + 1]} : i \in 1 .. Len(path) - 1}

\* A link's whole route as the pipes it runs over, none of them twice; Down if a leg has none.
Down == {{}}
Run(at, pipes)  == [at |-> at, pipes |-> pipes]
Over(run, path) == IF run.pipes = Down \/ path = <<>> THEN Down ELSE run.pipes \cup Crossed(path)
RouteLink(open, l, passing) ==
    LET leg(run, stop) == Run(stop, Over(run, Route(open \ run.pipes, run.at, stop, passing)))
    IN  FoldLeft(leg, Run(l.src, {}), Tail(Stops(l))).pipes

\* A link has first call on the link pipes joining its own stops, the oldest such link.
Called(d) ==
    LET own(l)  == ToSet(Legs(d.link[l])) \cap {p \in DOMAIN d.pipe : d.pipe[p] = "link"}
        call(c, l) == c @@ [p \in own(l) |-> l]
    IN  FoldLeft(call, << >>, ByAge(d.link))

\* assign: each link takes its way over the pipes nobody else holds or has called, oldest first.
OpenTo(l, d, called, routes) ==
    {p \in DOMAIN d.pipe : /\ p \in DOMAIN called => called[p] = l
                           /\ \A o \in DOMAIN routes : p \notin routes[o]}
Routes(d) ==
    LET passing == {a \in DOMAIN d.node : d.node[a]}
        called  == Called(d)
        take(r, l) == (l :> RouteLink(OpenTo(l, d, called, r), d.link[l], passing)) @@ r
    IN  FoldLeft(take, << >>, ByAge(d.link))

Held(l, route) == IF route = Down THEN ToSet(Legs(l)) ELSE route
InUse(d) ==
    LET routes == Routes(d)
    IN  UNION {Held(d.link[l], routes[l]) : l \in DOMAIN d.link}

\* pipeAnchors with the links' own: what the sweep counts as referenced.
Referenced(d) ==
    LET used == InUse(d)
        standing == {p \in DOMAIN d.pipe : d.pipe[p] = "hand" \/ p \in used}
    IN  UNION {At(d.link[l]) : l \in DOMAIN d.link} \cup UNION standing

-----------------------------------------------------------------------------
(* One op at a time.  A plan in progress: the projection, what was touched  *)
(* in order, what reactions wrote, and whether two of them cut one link.     *)

Without(f, S) == Restrict(f, DOMAIN f \ S)

Touch(s, kind, id) ==
    IF <<kind, id>> \in ToSet(s.seen) THEN s ELSE [s EXCEPT !.seen = Append(@, <<kind, id>>)]

Put(s, kind, id, value) == [Touch(s, kind, id) EXCEPT !.doc[kind] = (id :> value) @@ @]
Cut(s, kind, id)        == [Touch(s, kind, id) EXCEPT !.doc[kind] = Without(@, {id})]
Wrote(s, kind, id, value) == [Put(s, kind, id, value) EXCEPT !.wrote = @ \cup {<<kind, id>>}]

CutLinks(s, ids)   == FoldLeft(LAMBDA t, id : Cut(t, "link", id), s, Ascending(ids))
CutPipes(s, pairs) == FoldSet(LAMBDA pair, t : Cut(t, "pipe", pair), s, pairs)

\* The changes so far: touched, and not as it was.
Is(d, kind, id) == IF id \in DOMAIN d[kind] THEN <<d[kind][id]>> ELSE <<>>
Changes(s) == SelectSeq(s.seen, LAMBDA c : Is(s.before, c[1], c[2]) # Is(s.doc, c[1], c[2]))
Kinds(s)   == {c[1] : c \in ToSet(Changes(s))}
Made(s, c)    == Is(s.before, c[1], c[2]) = <<>>
Deleted(s, c) == Is(s.doc, c[1], c[2]) = <<>>
Stood(s, c)   == ~Made(s, c) /\ ~Deleted(s, c)
Refielded(s, c, fields) == \E f \in fields : s.before.link[c[2]][f] # s.doc.link[c[2]][f]
Routed(s, c) ==   \* a link made, or re-ended or re-pinned
    /\ c[1] = "link" /\ ~Deleted(s, c)
    /\ Made(s, c) \/ Refielded(s, c, {"src", "dst", "via", "closed"})

\* groupAfterRemoval
Trim(s, g, gone) ==
    LET left == s.doc.group[g] \ gone
    IN  IF Cardinality(left) < 2 THEN Cut(s, "group", g) ELSE Wrote(s, "group", g, left)

GroupTrimForgotten(s, a) == s   \* slip: a waypoint's delete leaves its groups

GroupTrim(s, a) ==
    FoldLeft(LAMBDA t, g : Trim(t, g, {a}), s, Ascending({g \in DOMAIN s.doc.group : a \in s.doc.group[g]}))

GroupSteal(s, id, members) ==
    FoldLeft(LAMBDA t, g : Trim(t, g, members), s,
             Ascending({g \in DOMAIN s.doc.group \ {id} : s.doc.group[g] \cap members # {}}))

PipeCascade(s, a) == CutPipes(s, {p \in DOMAIN s.doc.pipe : a \in p})
NodeLinks(s, a)   == CutLinks(s, {l \in DOMAIN s.doc.link : a \in At(s.doc.link[l])})

\* A strip that would leave a second straight link on its pair deletes the link instead.
WaypointLinks(s, a) ==
    LET ends == {l \in DOMAIN s.doc.link : a \in Pair(s.doc.link[l])}
        strip(t, l) ==
            LET link == [t.doc.link[l] EXCEPT !.via = SelectSeq(@, LAMBDA w : w # a)]
                holders == {o \in DOMAIN t.doc.link \ {l} : Straight(t.doc.link[o]) /\ Pair(t.doc.link[o]) = Pair(link)}
            IN  IF Straight(link) /\ holders # {} THEN Cut(t, "link", l) ELSE Wrote(t, "link", l, link)
        bent == {l \in DOMAIN s.doc.link \ ends : a \in At(s.doc.link[l])}
    IN  FoldLeft(strip, CutLinks(s, ends), Ascending(bent))

Clear(s, a) ==
    GroupTrim(PipeCascade(IF Permits(a) THEN WaypointLinks(s, a) ELSE NodeLinks(s, a), a), a)

DelNode(s, a) == IF a \notin DOMAIN s.doc.node THEN s ELSE Cut(Clear(s, a), "node", a)

-----------------------------------------------------------------------------
(* Cuts: a link ended at a bend, a ring opened, a loop closed *)

\* pieceId: the link's id XOR the anchor's, then the next free one.  An id is a drawn link's number,
\* the anchors it has been cut at an odd number of times as bits, and the clashes it stepped over.
Window == 8
Derived(from, at) ==
    LET bit == 2 * Window * 2 ^ (at - 1)
    IN  IF (from \div bit) % 2 = 1 THEN from - bit ELSE from + bit
PieceIds(from, at) == Derived(from, at) .. Derived(from, at) + Window - 1
PieceId(links, from, at) == Min(PieceIds(from, at) \ DOMAIN links)

AreCutPieces(links, k, l, at) ==
    LET one(i, j) == links[i].dst = at /\ links[j].src = at /\ j \in PieceIds(i, at)
    IN  one(k, l) \/ one(l, k)

\* Every cut is a reaction's: two reactions cutting one link in one phase is a fault (PD-3).
Claim(s, by, id) ==
    [s EXCEPT !.fault  = @ \/ (id \in DOMAIN s.claims /\ s.claims[id] # by),
              !.claims = (id :> by) @@ @]

CutAtBend(s, by, id, w) ==
    LET l == s.doc.link[id]
        i == IndexFirstSubSeq(<<w>>, l.via)
        piece == PieceId(s.doc.link, id, w)
        first == [l EXCEPT !.dst = w, !.via = SubSeq(@, 1, i - 1)]
        rest  == [l EXCEPT !.src = w, !.via = SubSeq(@, i + 1, Len(@)), !.order = NextOrder(s.doc.link)]
    IN  IF l.closed \/ w \in Pair(l) \/ ~Bends(l, w) THEN s
        ELSE Claim(Wrote(Claim(Wrote(s, "link", id, first), by, id), "link", piece, rest), by, piece)

OpenAnyRing(s, by, id, w) ==   \* slip: a ring with a host among its stops opens too
    LET l == s.doc.link[id]
        stops == <<l.src>> \o l.via \o <<l.dst>>
        i == IndexFirstSubSeq(<<w>>, stops)
        round == SubSeq(stops, i + 1, Len(stops)) \o SubSeq(stops, 1, i - 1)
    IN  IF ~l.closed \/ w \notin At(l) \/ Len(stops) < 3 THEN s
        ELSE Claim(Wrote(s, "link", id, [l EXCEPT !.src = w, !.via = round, !.dst = w, !.closed = FALSE]), by, id)

OpenRing(s, by, id, w) ==
    LET l == s.doc.link[id]
        stops == <<l.src>> \o l.via \o <<l.dst>>
        i == IndexFirstSubSeq(<<w>>, stops)
        round == SubSeq(stops, i + 1, Len(stops)) \o SubSeq(stops, 1, i - 1)
    IN  IF ~l.closed \/ w \notin At(l) \/ Len(stops) < 3 \/ \E a \in At(l) \ {w} : ~Offers(a) THEN s
        ELSE Claim(Wrote(s, "link", id, [l EXCEPT !.src = w, !.via = round, !.dst = w, !.closed = FALSE]), by, id)

Closed(l) == [l EXCEPT !.via = Front(@), !.dst = Last(l.via), !.closed = TRUE]

CloseLoopForgotten(s, by, id) == s   \* slip: a loop stays one when its end passes again

CloseLoop(s, by, id) ==
    IF ~IsLoop(s.doc.link[id]) THEN s ELSE Claim(Wrote(s, "link", id, Closed(s.doc.link[id])), by, id)

EachLink(s, F(_, _)) == FoldLeft(F, s, Ascending(DOMAIN s.doc.link))

StopAtBlockedStop(s, by, w) ==
    EachLink(EachLink(s, LAMBDA t, l : OpenRing(t, by, l, w)), LAMBDA t, l : CutAtBend(t, by, l, w))

-----------------------------------------------------------------------------
(* The phases of a transaction.  A reaction is called if its phase began    *)
(* with a change of a kind it listens to, and hears what matches by then.    *)

Turned(s, c) == c[1] = "node" /\ Stood(s, c)

TransitCut(s) ==
    LET turn(t, c) ==
            LET a == c[2]
            IN  IF ~Turned(s, c) \/ ~Offers(a) THEN t
                ELSE IF StopsAt(t.doc, a) THEN StopAtBlockedStop(t, "transit", a)
                ELSE EachLink(t, LAMBDA u, l : IF u.doc.link[l].src = a THEN CloseLoop(u, "transit", l) ELSE u)
    IN  FoldLeft(turn, s, Changes(s))

BlockedStops(s, l) ==
    SelectSeq(l.via \o (IF l.closed THEN <<l.src, l.dst>> ELSE <<>>), LAMBDA w : Offers(w) /\ StopsAt(s.doc, w))

\* Where a link arrives: cut at a stop it may not pass, and cutting what bends where it lands.
JunctionCut(s) ==
    LET arrives(c) == Routed(s, c) /\ (Made(s, c) \/ Refielded(s, c, {"via", "closed"}))
        land(t, id, end) ==
            IF ~Permits(end) THEN t
            ELSE EachLink(t, LAMBDA u, o : IF o = id THEN u ELSE CutAtBend(u, "junction", o, end))
        arrive(t, c) ==
            LET was == s.doc.link[c[2]]
                cut == FoldLeft(LAMBDA u, w : StopAtBlockedStop(u, "junction", w), t, BlockedStops(t, t.doc.link[c[2]]))
            IN  IF ~Made(s, c) \/ was.closed THEN cut ELSE land(land(cut, c[2], was.src), c[2], was.dst)
    IN  FoldLeft(arrive, s, SelectSeq(Changes(s), arrives))

Reshape(s) ==
    LET kinds == Kinds(s)
        cut   == IF "node" \in kinds THEN TransitCut(s) ELSE s
    IN  IF "link" \in kinds THEN JunctionCut(cut) ELSE cut

\* A pinned link lives and dies with its pins.
StrandedLinks(s) ==
    LET gone == {a \in Bare : a \in DOMAIN s.before.node /\ a \notin DOMAIN s.doc.node}
    IN  CutLinks(s, {l \in DOMAIN s.before.link \cap DOMAIN s.doc.link : ToSet(s.before.link[l].via) \cap gone # {}})

\* A pinned link made or re-pinned lays the legs no pipes join.
LinkLegs(s) ==
    LET leg(run, stop) ==
            LET path == Route(DOMAIN run.s.doc.pipe \ run.used, run.at, stop, Anchor)
                pair == {run.at, stop}
            IN  IF run.at = stop THEN run
                ELSE IF path # <<>> THEN [run EXCEPT !.at = stop, !.used = @ \cup Crossed(path)]
                ELSE [run EXCEPT !.at = stop, !.used = @ \cup {pair},
                         !.s = IF pair \in DOMAIN @.doc.pipe THEN @ ELSE Wrote(@, "pipe", pair, "link")]
        legs(t, c) ==
            LET l == s.doc.link[c[2]]
            IN  IF l.via = <<>> /\ ~l.closed THEN t
                ELSE FoldLeft(leg, [s |-> t, at |-> l.src, used |-> {}], Tail(Stops(l))).s
    IN  FoldLeft(legs, s, SelectSeq(Changes(s), LAMBDA c : Routed(s, c) /\ At(s.doc.link[c[2]]) \subseteq DOMAIN s.doc.node))

Stranded(s) ==
    LET kinds == Kinds(s)
        left  == IF "node" \in kinds THEN StrandedLinks(s) ELSE s
    IN  IF "link" \in kinds THEN LinkLegs(left) ELSE left

UnhookedByDelete(s, c) == c[1] \in {"link", "pipe"} /\ Deleted(s, c)   \* slip: a re-pinned link leaves its pins

Unhooked(s, c) ==   \* what stops referencing an anchor
    \/ c[1] \in {"link", "pipe"} /\ Deleted(s, c)
    \/ c[1] = "link" /\ Stood(s, c) /\ Refielded(s, c, {"src", "dst", "via"})

\* The waypoints this edit left referenced by nothing.
Sweep(s) ==
    LET debris == (Referenced(s.before) \ Referenced(s.doc)) \cap Bare \cap DOMAIN s.doc.node
    IN  IF \A c \in ToSet(Changes(s)) : ~Unhooked(s, c) THEN s
        ELSE FoldLeft(DelNode, s, Ascending(debris))

-----------------------------------------------------------------------------
(* Join: two links left alone at a waypoint become one *)

Reverse2(direction) ==
    CASE direction = "forward" -> "reverse" [] direction = "reverse" -> "forward" [] OTHER -> direction

FlipEnds(l) == [l EXCEPT !.src = l.dst, !.dst = l.src, !.direction = Reverse2(@)]   \* slip: the bends keep their order

Flip(l) == [l EXCEPT !.src = l.dst, !.dst = l.src, !.via = Reverse(@), !.direction = Reverse2(@)]

Facing(l, a) ==
    LET head == IF l.direction = "forward" THEN l.dst ELSE l.src
    IN  IF l.direction = Undeclared \/ a \notin Pair(l) THEN Undeclared ELSE IF a = head THEN "in" ELSE "out"

Touching(d, w) == {l \in DOMAIN d.link : w \in At(d.link[l])}

\* collapseAtWaypoint: two ends meeting at w, oriented through it; none if they oppose or differ in plane.
Merged(k, l, w, loop) ==
    LET a == IF k.dst = w THEN k ELSE Flip(k)
        b == IF l.src = w THEN l ELSE Flip(l)
        one == [a EXCEPT !.dst = b.dst, !.via = @ \o <<w>> \o b.via,
                         !.direction = IF Facing(a, w) = Undeclared THEN b.direction ELSE a.direction]
    IN  IF k.closed \/ l.closed \/ w \notin Pair(k) \/ w \notin Pair(l) THEN <<>>
        ELSE IF a.src = b.dst /\ ~(loop /\ IsLoop(one)) THEN <<>>
        ELSE IF Facing(a, w) # Undeclared /\ Facing(a, w) = Facing(b, w) THEN <<>>
        ELSE IF a.control # b.control THEN <<>>
        ELSE <<one>>

JoinAt(s, w, redeclared, woken) ==
    LET at    == Touching(s.doc, w)
        order == SelectSeq(ByAge(s.doc.link), LAMBDA l : l \in at)
        inbound == SelectSeq(order, LAMBDA l : s.doc.link[l].dst = w)
        k == IF inbound # <<>> THEN Head(inbound) ELSE Head(order)
        l == CHOOSE o \in at : o # k
        merged == Merged(s.doc.link[k], s.doc.link[l], w, woken)
        whole == IF IsLoop(merged[1]) /\ ~StopsAt(s.doc, merged[1].src) THEN Closed(merged[1]) ELSE merged[1]
    IN  IF \/ Cardinality(at) # 2
           \/ Cardinality(Touching(s.before, w)) <= 2 /\ ~redeclared
           \/ StopsAt(s.doc, w)
        THEN s
        ELSE IF \/ ~Permits(w) /\ ~AreCutPieces(s.doc.link, k, l, w)
                \/ merged = <<>>
             THEN s
             ELSE IF ~LinkRefers(s.doc, k, whole) THEN s
                  ELSE Wrote(Cut(s, "link", l), "link", k, whole)

LinkJoin(s) ==
    LET changes  == Changes(s)
        woken    == {c[2] : c \in {x \in ToSet(changes) : Turned(s, x) /\ Offers(x[2])}}
        declared == {c[2] : c \in {x \in ToSet(changes) :
                        x[1] = "link" /\ Stood(s, x) /\ Refielded(s, x, {"direction", "control"})}}
        ends(c)  == CASE c[1] = "node" /\ c[2] \in woken -> <<c[2]>>
                      [] c[1] = "link" /\ Deleted(s, c) -> SelectSeq(<<s.before.link[c[2]].src, s.before.link[c[2]].dst>>, Permits)
                      [] c[1] = "link" /\ c[2] \in declared -> SelectSeq(<<s.doc.link[c[2]].src, s.doc.link[c[2]].dst>>, Permits)
                      [] OTHER -> <<>>
        touched  == FoldLeft(LAMBDA q, c : q \o SelectSeq(ends(c), LAMBDA w : w \in DOMAIN s.doc.node /\ w \notin ToSet(q)),
                             <<>>, changes)
        redeclared == woken \cup UNION {Pair(s.doc.link[l]) : l \in declared}
    IN  FoldLeft(LAMBDA t, w : JoinAt(t, w, w \in redeclared, w \in woken), s, touched)

MovesARoute(s, c) ==
    \/ c[1] = "pipe" \/ Routed(s, c)
    \/ c[1] = "link" /\ Deleted(s, c)

PipeSweep(s) ==
    LET used == InUse(s.doc)
    IN  IF \A c \in ToSet(Changes(s)) : ~MovesARoute(s, c) THEN s
        ELSE CutPipes(s, {p \in DOMAIN s.doc.pipe : s.doc.pipe[p] = "link" /\ p \notin used})

Join(s) ==
    LET kinds  == Kinds(s)
        joined == IF kinds \cap {"link", "node"} # {} THEN LinkJoin(s) ELSE s
    IN  IF kinds \cap {"link", "pipe"} # {} THEN PipeSweep(joined) ELSE joined

-----------------------------------------------------------------------------
(* The request *)

\* planOne and apply, by the kind of op.
Refused(s) == [s EXCEPT !.refused = "op"]

PlanOne(s, op) ==
    IF s.refused # "no" THEN s ELSE
    CASE op.do = "node" -> IF op.item \in DOMAIN s.doc.node THEN s ELSE Put(s, "node", op.item, Offers(op.item))
      [] op.do = "transit" ->
            IF op.item \notin DOMAIN s.doc.node THEN Refused(s)
            ELSE IF s.doc.node[op.item] = op.becomes THEN s ELSE Put(s, "node", op.item, op.becomes)
      [] op.do = "link" ->
            LET link == [order |-> IF op.item \in DOMAIN s.doc.link THEN s.doc.link[op.item].order
                                   ELSE NextOrder(s.doc.link)] @@ op.becomes
            IN  IF ~LinkRefers(s.doc, op.item, op.becomes) THEN Refused(s)
                ELSE IF Is(s.doc, "link", op.item) = <<link>> THEN s ELSE Put(s, "link", op.item, link)
      [] op.do = "declare" ->
            IF op.item \notin DOMAIN s.doc.link THEN Refused(s)
            ELSE IF s.doc.link[op.item].direction = op.becomes THEN s
            ELSE Put(s, "link", op.item, [s.doc.link[op.item] EXCEPT !.direction = op.becomes])
      [] op.do = "pipe" ->
            IF ~PipeRefers(s.doc, op.item) THEN Refused(s)
            ELSE IF Is(s.doc, "pipe", op.item) = <<"hand">> THEN s ELSE Put(s, "pipe", op.item, "hand")
      [] op.do = "group" ->
            IF ~GroupRefers(s.doc, op.becomes) THEN Refused(s)
            ELSE GroupSteal(IF Is(s.doc, "group", op.item) = <<op.becomes>> THEN s ELSE Put(s, "group", op.item, op.becomes), op.item, op.becomes)
      [] op.do = "members" ->   \* a set, which no reaction follows
            IF op.item \notin DOMAIN s.doc.group \/ ~GroupRefers(s.doc, op.becomes) THEN Refused(s)
            ELSE IF s.doc.group[op.item] = op.becomes THEN s ELSE Put(s, "group", op.item, op.becomes)
      [] op.do = "delete" ->
            IF op.kind = "node" THEN DelNode(s, op.item)
            ELSE IF op.item \in DOMAIN s.doc[op.kind] THEN Cut(s, op.kind, op.item) ELSE s

\* transit-offers: a type that never passes routes stores no other value.
Offered(s) == \A a \in DOMAIN s.doc.node : s.doc.node[a] => Offers(a)

Valid(d, kind, id) ==
    CASE kind = "link"  -> LinkRefers(d, id, d.link[id])
      [] kind = "pipe"  -> PipeRefers(d, id)
      [] kind = "group" -> GroupRefers(d, d.group[id])

\* B302: what a reaction wrote meets the rules a requested write meets, unless it already failed them.
WroteInvalid(s) ==
    \E w \in s.wrote :
        /\ w[2] \in DOMAIN s.doc[w[1]] /\ ~Valid(s.doc, w[1], w[2])
        /\ w[2] \in DOMAIN s.before[w[1]] => Valid(s.before, w[1], w[2])

Judged(s) ==
    CASE s.refused # "no" -> s
      [] s.fault -> [s EXCEPT !.refused = "fault"]
      [] ~Offered(s) -> [s EXCEPT !.refused = "offers"]
      [] WroteInvalid(s) -> [s EXCEPT !.refused = "wrote"]
      [] Introduces(s.before, s.doc) -> [s EXCEPT !.refused = "introduces"]
      [] OTHER -> s

Begun(d) == [before |-> d, doc |-> d, seen |-> <<>>, wrote |-> {}, claims |-> << >>, fault |-> FALSE, refused |-> "no"]

Plan(d, request) ==
    LET asked == FoldLeft(PlanOne, Begun(d), request)
    IN  IF asked.refused # "no" THEN asked ELSE Judged(Join(Sweep(Stranded(Reshape(asked)))))

-----------------------------------------------------------------------------
VARIABLES
    doc,        \* the authority's document
    edits,      \* edits made other than turning transit over
    turns,      \* edits that only turn transit over
    drawn       \* history: the document as the last of the others left it
vars == <<doc, edits, turns, drawn>>

Op(do, item)            == [do |-> do, item |-> item]
OpTo(do, item, becomes) == [do |-> do, item |-> item, becomes |-> becomes]
Delete(thing)           == [do |-> "delete", kind |-> thing[1], item |-> thing[2]]

Init ==
    \E board \in Boards :
        /\ doc = FoldLeft(LAMBDA d, request : Plan(d, request).doc,
                          [node |-> [a \in Anchor |-> Offers(a)], link |-> << >>, pipe |-> << >>, group |-> << >>], board)
        /\ edits = 0 /\ turns = 0 /\ drawn = doc

\* A request is committed whole or not at all.
Commit(request) ==
    \E plan \in {Plan(doc, request)} :
        /\ plan.refused = "no"
        /\ doc' = plan.doc

Edit(request) ==
    /\ edits < MaxEdits /\ turns <= MaxTurnsEdited
    /\ Commit(request)
    /\ edits' = edits + 1 /\ drawn' = doc' /\ UNCHANGED turns

Turn(request) ==
    /\ turns < IF edits = 0 THEN MaxTurns ELSE MaxTurnsEdited
    /\ Commit(request)
    /\ turns' = turns + 1 /\ UNCHANGED <<edits, drawn>>

Toggle(a)  == OpTo("transit", a, ~doc.node[a])

Things     == UNION {{<<kind, id>> : id \in DOMAIN doc[kind]} : kind \in {"node", "link", "pipe", "group"}}
Turnable   == {a \in DOMAIN doc.node : Offers(a)}
Drawable   == (Drawn \cap DOMAIN doc.link) \cup {Min(Drawn \ DOMAIN doc.link) : n \in Drawn \ DOMAIN doc.link}

\* What is asked for: one op of each kind, two deletes, and a stop that stops passing as a link is drawn to it.
Edits ==
    {<<OpTo("link", id, shape)>> : id \in Drawable, shape \in Shapes}
    \cup {<<Op("pipe", pair)>> : pair \in HandPipes}
    \cup {<<Op("node", a)>> : a \in Anchor \ DOMAIN doc.node}
    \cup {<<OpTo("group", g, members)>> : g \in Groups, members \in Members}
    \cup {<<OpTo("members", g, members)>> : g \in DOMAIN doc.group, members \in Members}
    \cup {<<OpTo("declare", l, direction)>> : l \in DOMAIN doc.link, direction \in {"forward", "reverse"}}
    \cup {<<Delete(x)>> : x \in Things}
    \cup {<<Delete(x), Delete(y)>> : x, y \in Things}
    \cup UNION {{<<Toggle(a), OpTo("link", Min(Drawn \ DOMAIN doc.link), shape)>> : a \in Turnable \cap At(shape)}
                 : shape \in {x \in Shapes : ~(Drawn \subseteq DOMAIN doc.link)}}

Turns == {<<Toggle(a)>> : a \in Turnable} \cup {<<Toggle(p[1]), Toggle(p[2])>> : p \in {q \in Turnable \X Turnable : q[1] < q[2]}}

Next ==
    \/ \E request \in Edits : Edit(request)
    \/ \E request \in Turns : Turn(request)

Spec == Init /\ [][Next]_vars

-----------------------------------------------------------------------------
(* Properties *)

\* What is committed can be opened again: every link, pipe and group passes the rules the store refuses
\* a file by, and no invariant is broken, whatever the reactions wrote that no request named (B239, B241, B302).
LoadsBack ==
    /\ \A l \in DOMAIN doc.link : LinkRefers(doc, l, doc.link[l])
    /\ \A g \in DOMAIN doc.group : GroupRefers(doc, doc.group[g])
    /\ \A p \in DOMAIN doc.pipe : PipeRefers(doc, p)
    /\ Excess(doc) = {}

\* Links that run over no leg and bend at no anchor of each other's.
Apart(d) == \A k, l \in DOMAIN d.link : k # l =>
    /\ ToSet(Legs(d.link[k])) \cap ToSet(Legs(d.link[l])) = {}
    /\ ToSet(d.link[k].via) \cap ToSet(d.link[l].via) = {}

\* A reaction never refuses (PL5): whatever its joins and strips come to, a delete goes through, and so does
\* turning an anchor's transit over where no two links could be cut into one picture (B301).
NothingRefused ==
    \A request \in {<<Delete(x)>> : x \in Things} \cup {<<Toggle(a)>> : a \in {b \in Turnable : Apart(doc)}} :
        Plan(doc, request).refused = "no"

AllLegs(d) == UNION {ToSet(Legs(d.link[l])) : l \in DOMAIN d.link}

\* Turning transit over, anywhere and in any order, cuts and joins links but draws and erases nothing.
PictureKept == AllLegs(doc) = AllLegs(drawn)

Round(l) ==   \* a ring, or the loop it opens into, is one wherever it is said to begin
    LET stops == <<l.src>> \o l.via \o (IF l.closed THEN <<l.dst>> ELSE <<>>)
        i == IndexFirstSubSeq(<<Min(At(l))>>, stops)
    IN  [stops |-> SubSeq(stops, i, Len(stops)) \o SubSeq(stops, 1, i - 1),
         closed |-> l.closed, direction |-> l.direction, control |-> l.control]

Lines(d)  == {l \in DOMAIN d.link : ~d.link[l].closed /\ ~IsLoop(d.link[l])}
Rounds(d) == {Round(d.link[l]) : l \in DOMAIN d.link \ Lines(d)}
Passed(l) == ToSet(l.via) \cup (IF l.closed THEN Pair(l) ELSE {})

\* Cut and rejoined, a link is the link the author drew, id, age and declarations, and a ring is whole again, in
\* whatever order its stops come back (B213, B284, B299, B300).  Where two links meet they may join that never
\* were one; and a device among several bends is left out, since the join there goes by lineage (areCutPieces),
\* which a join at another bend changes.
RoundTrip ==
    /\ doc.node = drawn.node
    /\ \A a \in DOMAIN drawn.node : Offers(a) => drawn.node[a] /\ Cardinality(Touching(drawn, a)) <= 1
    /\ \A l \in DOMAIN drawn.link : Cardinality(Passed(drawn.link[l])) > 1 => Passed(drawn.link[l]) \subseteq Bare
    => /\ Restrict(doc.link, Lines(doc)) = Restrict(drawn.link, Lines(drawn))
       /\ Rounds(doc) = Rounds(drawn)

Debris(d) ==
    {<<"node", a>> : a \in (Bare \cap DOMAIN d.node) \ Referenced(d)}
    \cup {<<"pipe", p>> : p \in {q \in DOMAIN d.pipe : d.pipe[q] = "link"} \ InUse(d)}

\* A waypoint the pipes alone held when the waypoints were swept, which the later sweep of the pipes lets go.
LetGo(a) ==
    \/ \A l \in DOMAIN doc.link : a \notin At(doc.link[l])
    \/ \E l \in DOMAIN doc.link \cap DOMAIN doc'.link : Len(doc'.link[l].via) > Len(doc.link[l].via)

\* An edit leaves no debris of its own making (B162): no waypoint it took out of the last link, and no pipe laid
\* with a link that it left idle.  The pipes are swept after the waypoints and after the joins, so a waypoint only
\* a pipe still held, off every link or where links joined elsewhere, does stay.
NothingLeftBehind ==
    [][turns' = turns => \A x \in Debris(doc') :
        \/ x \in Debris(doc)
        \/ x[1] = "node" /\ (x[2] \notin DOMAIN doc.node \/ LetGo(x[2]))]_vars
=============================================================================

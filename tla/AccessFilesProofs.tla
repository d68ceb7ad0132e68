------------------------- MODULE AccessFilesProofs -------------------------
(***************************************************************************)
(* What AccessFiles promises of grants, claims and quotas, for any number  *)
(* of people, agents, diagrams, codes, changes, failed writes and restarts. *)
(***************************************************************************)
EXTENDS AccessFiles, TLAPS, FiniteSetTheorems

Content(f) == IF f = "access" THEN Grants ELSE Codes
Pending(f) == [next : Content(f), stage : {"asked", "landed"}, fact : Fact]

-----------------------------------------------------------------------------
(* The invariant                                                            *)

Typed ==
    /\ memory \in [access : Grants, codes : Codes]
    /\ file \in [access : Grants, codes : Codes]
    /\ gen \in [File -> Nat] /\ known \in [File -> Nat]
    /\ DOMAIN queue = File /\ \A f \in File : queue[f] \in Seq(Pending(f))
    /\ expired \subseteq Code /\ issued \subseteq Code
    /\ owner \in [Diagram -> Principal \cup {None}]
    /\ request \in Principal \cup {None}

\* Only the head of a file's queue has landed, and it is what the file holds.
HeadLands ==
    \A f \in File : \A i \in DOMAIN queue[f] :
        queue[f][i].stage = "landed" => i = 1 /\ file[f] = queue[f][1].next

Waiting(f) == queue[f] = <<>> \/ queue[f][1].stage = "asked"

\* Until a write lands, memory is the file and the generation last seen is its own.
Synchronised ==
    \A f \in File \ unheard : Waiting(f) => memory[f] = file[f] /\ known[f] = gen[f]

AccessInv == Typed /\ HeadLands /\ Synchronised

LEMMA TypesFollow == AccessInv => TypeOK
<1> SUFFICES ASSUME AccessInv, NEW f \in File, NEW i \in DOMAIN queue[f]
             PROVE  /\ queue[f][i].next \in IF f = "access" THEN Grants ELSE Codes
                    /\ queue[f][i].stage \in {"asked", "landed"} /\ queue[f][i].fact \in Fact
                    /\ queue[f][i].stage = "landed" => i = 1 /\ file[f] = queue[f][1].next
  BY DEF AccessInv, Typed, TypeOK
<1>1. queue[f][i] \in Pending(f)
  BY DEF AccessInv, Typed
<1> QED
  BY <1>1 DEF Pending, Content, AccessInv, HeadLands

\* A change joins the end of its file's queue.
LEMMA ChangeKeeps ==
    ASSUME AccessInv, NEW f \in File, NEW next \in Content(f), NEW fact \in Fact,
           Change(f, next, fact), issued' \subseteq Code
    PROVE  AccessInv'
<1> DEFINE call == [next |-> next, stage |-> "asked", fact |-> fact]
<1>1. call \in Pending(f) /\ call.stage = "asked"
  BY DEF Pending
<1>2. /\ UNCHANGED <<memory, file, gen, known, unheard, expired, owner, request>>
      /\ queue' = [queue EXCEPT ![f] = Append(queue[f], call)]
  BY DEF Change
<1> HIDE DEF call
<1>3. queue[f] \in Seq(Pending(f))
  BY DEF AccessInv, Typed
<1>4. Append(queue[f], call) \in Seq(Pending(f))
  BY <1>1, <1>3
<1>5. /\ DOMAIN queue' = File /\ queue'[f] = Append(queue[f], call)
      /\ \A g \in File \ {f} : queue'[g] = queue[g]
  BY <1>2 DEF AccessInv, Typed
<1>6. Typed'
  BY <1>2, <1>4, <1>5 DEF AccessInv, Typed
<1>7. \A i \in DOMAIN queue'[f] : /\ i \in 1 .. Len(queue[f]) + 1
                                  /\ i \in DOMAIN queue[f] => queue'[f][i] = queue[f][i]
                                  /\ i \notin DOMAIN queue[f] => queue'[f][i] = call
  BY <1>3, <1>5
<1>8. HeadLands'
  BY <1>1, <1>2, <1>3, <1>5, <1>7 DEF AccessInv, HeadLands
<1>9. Synchronised'
  <2>1. Waiting(f)' => Waiting(f)
    <3>1. CASE queue[f] = <<>>
      BY <3>1 DEF Waiting
    <3>2. CASE queue[f] # <<>>
      <4>1. queue'[f][1] = queue[f][1] /\ queue'[f] # <<>>
        BY <1>3, <1>5, <3>2
      <4> QED
        BY <4>1 DEF Waiting
    <3> QED
      BY <3>1, <3>2
  <2>2. \A g \in File \ {f} : Waiting(g)' => Waiting(g)
    BY <1>5 DEF Waiting
  <2> QED
    BY <1>2, <2>1, <2>2 DEF AccessInv, Synchronised
<1> QED
  BY <1>6, <1>8, <1>9 DEF AccessInv

\* The head of a queue leaves it, and nothing behind it has landed.
LEMMA ServedLeaves ==
    ASSUME AccessInv, NEW f \in File, queue[f] # <<>>, Served(f)
    PROVE  /\ DOMAIN queue' = File /\ \A g \in File \ {f} : queue'[g] = queue[g]
           /\ queue'[f] \in Seq(Pending(f)) /\ Waiting(f)'
           /\ \A i \in DOMAIN queue'[f] : queue'[f][i].stage = "asked"
<1>1. queue[f] \in Seq(Pending(f))
  BY DEF AccessInv, Typed
<1>2. /\ DOMAIN queue' = File /\ \A g \in File \ {f} : queue'[g] = queue[g]
      /\ queue'[f] = Tail(queue[f])
  BY DEF Served, AccessInv, Typed
<1>3. queue'[f] \in Seq(Pending(f))
  BY <1>1, <1>2
<1>4. ASSUME NEW i \in DOMAIN queue'[f]
      PROVE  queue'[f][i].stage = "asked"
  <2>1. i + 1 \in DOMAIN queue[f] /\ queue'[f][i] = queue[f][i + 1] /\ i + 1 # 1
    BY <1>1, <1>2
  <2>2. queue[f][i + 1] \in Pending(f)
    BY <1>1, <2>1
  <2> QED
    BY <2>1, <2>2 DEF Pending, AccessInv, HeadLands
<1>5. Waiting(f)'
  <2>1. queue'[f] # <<>> => 1 \in DOMAIN queue'[f]
    BY <1>3
  <2> QED
    BY <1>4, <2>1 DEF Waiting
<1> QED
  BY <1>2, <1>3, <1>4, <1>5

LEMMA LandsKeeps ==
    ASSUME AccessInv, NEW f \in File, Lands(f)
    PROVE  AccessInv'
<1>1. /\ UNCHANGED <<memory, known, unheard, expired, issued, owner, request>>
      /\ queue[f] # <<>> /\ file' = [file EXCEPT ![f] = Head(queue[f]).next]
      /\ gen' = [gen EXCEPT ![f] = @ + 1]
      /\ queue' = [queue EXCEPT ![f][1].stage = "landed"]
  BY DEF Lands, Rest
<1>2. /\ queue[f] \in Seq(Pending(f)) /\ Head(queue[f]) = queue[f][1] /\ 1 \in DOMAIN queue[f]
      /\ queue[f][1] \in Pending(f)
  BY <1>1 DEF AccessInv, Typed
<1> DEFINE call == [queue[f][1] EXCEPT !.stage = "landed"]
<1>3. call \in Pending(f) /\ call.stage = "landed" /\ call.next = queue[f][1].next
  BY <1>2 DEF Pending
<1>4. queue' = [queue EXCEPT ![f] = [queue[f] EXCEPT ![1] = call]]
  BY <1>1
<1> HIDE DEF call
<1>5. /\ DOMAIN queue' = File /\ \A g \in File \ {f} : queue'[g] = queue[g]
      /\ queue'[f] \in Seq(Pending(f)) /\ DOMAIN queue'[f] = DOMAIN queue[f]
      /\ queue'[f][1] = call /\ \A i \in DOMAIN queue[f] \ {1} : queue'[f][i] = queue[f][i]
  BY <1>2, <1>3, <1>4 DEF AccessInv, Typed
<1>6. /\ file' \in [access : Grants, codes : Codes] /\ file'[f] = queue[f][1].next
      /\ \A g \in File \ {f} : file'[g] = file[g]
  <2>1. CASE f = "access"
    BY <1>1, <1>2, <2>1 DEF AccessInv, Typed, Pending, Content, File
  <2>2. CASE f = "codes"
    BY <1>1, <1>2, <2>2 DEF AccessInv, Typed, Pending, Content, File
  <2> QED
    BY <2>1, <2>2 DEF File
<1>7. gen' \in [File -> Nat] /\ \A g \in File \ {f} : gen'[g] = gen[g]
  BY <1>1 DEF AccessInv, Typed
<1>8. Typed'
  BY <1>1, <1>5, <1>6, <1>7 DEF AccessInv, Typed
<1>9. HeadLands'
  BY <1>3, <1>5, <1>6 DEF AccessInv, HeadLands
<1>10. Synchronised'
  <2>1. ~Waiting(f)'
    <3>1. queue'[f] # <<>>
      BY <1>2, <1>5
    <3> QED
      BY <1>3, <1>5, <3>1 DEF Waiting
  <2>2. \A g \in File \ {f} : Waiting(g)' => Waiting(g)
    BY <1>5 DEF Waiting
  <2> QED
    BY <1>1, <1>6, <1>7, <2>1, <2>2 DEF AccessInv, Synchronised
<1> QED
  BY <1>8, <1>9, <1>10 DEF AccessInv

\* A write fails or is refused, and memory is what it was.
LEMMA FailsKeeps ==
    ASSUME AccessInv, NEW f \in File, Fails(f) \/ Refused(f)
    PROVE  AccessInv'
<1>1. /\ UNCHANGED <<memory, file, gen, known, unheard, expired, issued, owner, request>>
      /\ queue[f] # <<>> /\ Head(queue[f]).stage = "asked" /\ Served(f)
  BY DEF Fails, Refused, Failed, Rest
<1>2. /\ DOMAIN queue' = File /\ \A g \in File \ {f} : queue'[g] = queue[g]
      /\ queue'[f] \in Seq(Pending(f))
      /\ \A i \in DOMAIN queue'[f] : queue'[f][i].stage = "asked"
  BY <1>1, ServedLeaves
<1>3. Waiting(f)
  <2>1. Head(queue[f]) = queue[f][1]
    BY <1>1 DEF AccessInv, Typed
  <2> QED
    BY <1>1, <2>1 DEF Waiting
<1>4. Typed' /\ HeadLands'
  BY <1>1, <1>2 DEF AccessInv, Typed, HeadLands
<1>5. Synchronised'
  BY <1>1, <1>2, <1>3 DEF AccessInv, Synchronised, Waiting
<1> QED
  BY <1>4, <1>5 DEF AccessInv

\* The answer: what landed is what memory becomes.
LEMMA AnsweredKeeps ==
    ASSUME AccessInv, NEW f \in File, Answered(f)
    PROVE  AccessInv' /\ memory'[f] = file[f] /\ \A g \in File \ {f} : memory'[g] = memory[g]
<1>1. /\ UNCHANGED <<file, gen, unheard, expired, issued, owner, request>>
      /\ queue[f] # <<>> /\ Head(queue[f]).stage = "landed" /\ Served(f)
      /\ memory' = [memory EXCEPT ![f] = Head(queue[f]).next]
      /\ known' = [known EXCEPT ![f] = gen[f]]
  BY DEF Answered, Rest
<1>2. /\ Head(queue[f]) = queue[f][1] /\ 1 \in DOMAIN queue[f] /\ queue[f][1] \in Pending(f)
  BY <1>1 DEF AccessInv, Typed
<1>3. file[f] = queue[f][1].next
  BY <1>1, <1>2 DEF AccessInv, HeadLands
<1>4. /\ DOMAIN queue' = File /\ \A g \in File \ {f} : queue'[g] = queue[g]
      /\ queue'[f] \in Seq(Pending(f))
      /\ \A i \in DOMAIN queue'[f] : queue'[f][i].stage = "asked"
  BY <1>1, ServedLeaves
<1>5. /\ memory' \in [access : Grants, codes : Codes] /\ memory'[f] = file[f]
      /\ \A g \in File \ {f} : memory'[g] = memory[g]
  <2>1. CASE f = "access"
    BY <1>1, <1>2, <1>3, <2>1 DEF AccessInv, Typed, Pending, Content, File
  <2>2. CASE f = "codes"
    BY <1>1, <1>2, <1>3, <2>2 DEF AccessInv, Typed, Pending, Content, File
  <2> QED
    BY <2>1, <2>2 DEF File
<1>6. known' \in [File -> Nat] /\ known'[f] = gen[f] /\ \A g \in File \ {f} : known'[g] = known[g]
  BY <1>1 DEF AccessInv, Typed
<1>7. Typed'
  BY <1>1, <1>4, <1>5, <1>6 DEF AccessInv, Typed
<1>8. HeadLands'
  BY <1>1, <1>4 DEF AccessInv, HeadLands
<1>9. Synchronised'
  BY <1>1, <1>4, <1>5, <1>6 DEF AccessInv, Synchronised, Waiting
<1> QED
  BY <1>5, <1>7, <1>8, <1>9 DEF AccessInv

LEMMA UnheardKeeps ==
    ASSUME AccessInv, NEW f \in File, Unheard(f)
    PROVE  AccessInv'
<1>1. /\ UNCHANGED <<memory, file, gen, known, expired, issued, owner, request>>
      /\ queue[f] # <<>> /\ Served(f) /\ unheard' = unheard \cup {f}
  BY DEF Unheard, Rest
<1>2. /\ DOMAIN queue' = File /\ \A g \in File \ {f} : queue'[g] = queue[g]
      /\ queue'[f] \in Seq(Pending(f))
      /\ \A i \in DOMAIN queue'[f] : queue'[f][i].stage = "asked"
  BY <1>1, ServedLeaves
<1>3. Typed' /\ HeadLands'
  BY <1>1, <1>2 DEF AccessInv, Typed, HeadLands
<1>4. Synchronised'
  BY <1>1, <1>2 DEF AccessInv, Synchronised, Waiting
<1> QED
  BY <1>3, <1>4 DEF AccessInv

LEMMA RestartKeeps ==
    ASSUME AccessInv, Restart
    PROVE  AccessInv'
<1>1. /\ UNCHANGED <<file, gen, unheard, expired, issued, owner>>
      /\ memory' = file /\ known' = gen /\ request' = None
      /\ queue' = [f \in File |-> <<>>]
  BY DEF Restart
<1>2. DOMAIN queue' = File /\ \A f \in File : queue'[f] = <<>> /\ queue'[f] \in Seq(Pending(f))
  BY <1>1
<1>3. Typed' /\ HeadLands'
  BY <1>1, <1>2 DEF AccessInv, Typed, HeadLands
<1>4. Synchronised'
  BY <1>1 DEF Synchronised
<1> QED
  BY <1>3, <1>4 DEF AccessInv

\* Requests change who owns what, and no file.
LEMMA RequestKeeps ==
    ASSUME AccessInv,
           \/ \E p \in Principal : Arrives(p)
           \/ \E d \in Diagram : Create(d) \/ RemoveDiagram(d)
           \/ TooMany
           \/ \E c \in Code : Lapse(c)
    PROVE  AccessInv'
<1>1. UNCHANGED <<side, issued>>
  BY DEF Arrives, Create, RemoveDiagram, TooMany, Lapse
<1>2. owner' \in [Diagram -> Principal \cup {None}] /\ request' \in Principal \cup {None}
      /\ expired' \subseteq Code
  <2>1. request # None => OwnerFor(request) \in Principal
    BY AccessAssumption DEF OwnerFor, ClaimantOf, AccessInv, Typed, Codes, Principal
  <2> QED
    BY <2>1 DEF Arrives, Create, RemoveDiagram, TooMany, Lapse, AccessInv, Typed
<1> QED
  BY <1>1, <1>2 DEF side, AccessInv, Typed, HeadLands, Synchronised, Waiting

\* Every change writes a whole file of its kind.
LEMMA AskKeeps ==
    ASSUME AccessInv,
           \/ \E o \in Person, p \in Principal, l \in Level : GrantOwner(o, p, l)
           \/ \E a \in Agent, by \in Person, c \in Code : MintCode(a, by, c)
           \/ \E c \in Code, by \in Person : RevokeCode(c, by)
    PROVE  AccessInv'
<1>1. memory.access \in Grants /\ memory.codes \in Codes
  BY DEF AccessInv, Typed
<1>2. ASSUME NEW o \in Person, NEW p \in Principal, NEW l \in Level, GrantOwner(o, p, l)
      PROVE  AccessInv'
  <2>1. [memory.access EXCEPT ![o][p] = l] \in Content("access")
    BY <1>1 DEF Content, Grants
  <2>2. [owner |-> o, who |-> p, level |-> l] \in Fact
    BY DEF Fact
  <2>3. issued' \subseteq Code
    BY <1>2 DEF GrantOwner, AccessInv, Typed
  <2> QED
    BY <1>2, <2>1, <2>2, <2>3, ChangeKeeps DEF GrantOwner, File
<1>3. ASSUME NEW a \in Agent, NEW by \in Person, NEW c \in Code, MintCode(a, by, c)
      PROVE  AccessInv'
  <2>1. [claims |-> [memory.codes.claims EXCEPT ![a] = by],
         codes |-> [memory.codes.codes EXCEPT ![c] = a]] \in Content("codes")
    BY <1>1 DEF Content, Codes
  <2>2. None \in Fact /\ issued' \subseteq Code
    BY <1>3 DEF Fact, MintCode, AccessInv, Typed
  <2> QED
    BY <1>3, <2>1, <2>2, ChangeKeeps DEF MintCode, File
<1>4. ASSUME NEW c \in Code, NEW by \in Person, RevokeCode(c, by)
      PROVE  AccessInv'
  <2>1. Without(c) \in Content("codes")
    BY <1>1 DEF Content, Codes, Without
  <2>2. None \in Fact /\ issued' \subseteq Code
    BY <1>4 DEF Fact, RevokeCode, AccessInv, Typed
  <2> QED
    BY <1>4, <2>1, <2>2, ChangeKeeps DEF RevokeCode, File
<1> QED
  BY <1>2, <1>3, <1>4

LEMMA AccessInductive == AccessInv /\ [Next]_vars => AccessInv'
<1> SUFFICES ASSUME AccessInv, [Next]_vars PROVE AccessInv'
  OBVIOUS
<1>1. CASE UNCHANGED vars
  BY <1>1 DEF vars, side, AccessInv, Typed, HeadLands, Synchronised, Waiting
<1> QED
  BY <1>1, AskKeeps, LandsKeeps, FailsKeeps, AnsweredKeeps, UnheardKeeps, RequestKeeps,
     RestartKeeps DEF Next

LEMMA AccessInit == Init => AccessInv
<1> SUFFICES ASSUME Init PROVE AccessInv
  OBVIOUS
<1>1. NoGrants \in Grants /\ NoCodes \in Codes
  BY DEF NoGrants, NoCodes, Grants, Codes, Level
<1>2. DOMAIN queue = File /\ \A f \in File : queue[f] = <<>> /\ queue[f] \in Seq(Pending(f))
  BY DEF Init
<1>3. Typed
  BY <1>1, <1>2 DEF Init, Typed
<1>4. HeadLands /\ Synchronised
  BY <1>2 DEF Init, HeadLands, Synchronised
<1> QED
  BY <1>3, <1>4 DEF AccessInv

\* Grants, claims, codes and the writes under way are of their types, and what
\* has landed is what the file holds.
THEOREM FilesAreTyped == Spec => []TypeOK
BY AccessInit, AccessInductive, TypesFollow, PTL DEF Spec

\* Once no change is under way the server goes by what the file says, so that a
\* restart changes nobody's access: through any overlap, failure and refusal of
\* writes, unless one landed whose answer was lost.
THEOREM MemoryStaysTheFile == Spec => []MemoryIsFile
<1>1. AccessInv => MemoryIsFile
  BY DEF AccessInv, Synchronised, Waiting, MemoryIsFile
<1> QED
  BY <1>1, AccessInit, AccessInductive, PTL DEF Spec

-----------------------------------------------------------------------------
(* Claims and quotas                                                        *)

\* While changes of codes do not overlap, the one under way keeps every claim
\* there is, and an agent whose request is being read is claimed.
Claimed ==
    "codes" \notin overlapped =>
        /\ \A i \in DOMAIN queue["codes"] : /\ i = 1
             /\ \A a \in Agent : memory.codes.claims[a] # None =>
                    queue["codes"][i].next.claims[a] = memory.codes.claims[a]
        /\ request \in Agent => memory.codes.claims[request] # None

LEMMA TailOfOne ==
    ASSUME NEW S, NEW s \in Seq(S), Len(s) = 1
    PROVE  DOMAIN Tail(s) = {}
<1>1. Tail(s) \in Seq(S) /\ Len(Tail(s)) = 0
  OBVIOUS
<1>2. \A t \in Seq(S) : Len(t) = 0 => DOMAIN t = {}
  <2> SUFFICES ASSUME NEW t \in Seq(S), Len(t) = 0, NEW i \in DOMAIN t
               PROVE  FALSE
    OBVIOUS
  <2> QED
    OBVIOUS
<1> QED
  BY <1>1, <1>2

LEMMA AloneInQueue ==
    ASSUME AccessInv, Claimed, "codes" \notin overlapped, queue["codes"] # <<>>
    PROVE  DOMAIN Tail(queue["codes"]) = {}
<1>1. queue["codes"] \in Seq(Pending("codes"))
  BY DEF AccessInv, Typed, File
<1>2. Len(queue["codes"]) \in DOMAIN queue["codes"]
  BY <1>1
<1>3. Len(queue["codes"]) = 1
  BY <1>2 DEF Claimed
<1> QED
  BY <1>1, <1>3, TailOfOne

LEMMA ClaimedInductive ==
    ASSUME AccessInv, Claimed, [Next]_vars
    PROVE  Claimed'
<1>1. queue["codes"] \in Seq(Pending("codes")) /\ memory.codes \in Codes /\ "codes" \in File
  BY DEF AccessInv, Typed, File
<1>2. ASSUME NEW next, NEW fact, NEW f \in File, Change(f, next, fact),
             f = "codes" => \A a \in Agent :
                memory.codes.claims[a] # None => next.claims[a] = memory.codes.claims[a]
      PROVE  Claimed'
  <2>1. UNCHANGED <<memory, request>> /\ overlapped \subseteq overlapped'
    BY <1>2 DEF Change
  <2>2. CASE f # "codes"
    <3>1. queue'["codes"] = queue["codes"]
      BY <1>2, <2>2 DEF Change, AccessInv, Typed
    <3> QED
      BY <2>1, <3>1 DEF Claimed
  <2>3. CASE f = "codes" /\ queue["codes"] # <<>>
    BY <1>2, <2>3 DEF Change, Claimed
  <2>4. CASE f = "codes" /\ queue["codes"] = <<>>
    <3>1. queue'["codes"] = Append(<<>>, [next |-> next, stage |-> "asked", fact |-> fact])
      BY <1>1, <1>2, <2>4 DEF Change, AccessInv, Typed
    <3>2. /\ DOMAIN queue'["codes"] = {1}
          /\ queue'["codes"][1] = [next |-> next, stage |-> "asked", fact |-> fact]
      BY <3>1
    <3> QED
      BY <1>2, <2>1, <2>4, <3>2 DEF Claimed
  <2> QED
    BY <2>2, <2>3, <2>4
<1>3. ASSUME NEW a \in Agent, NEW by \in Person, NEW c \in Code, MintCode(a, by, c)
      PROVE  Claimed'
  <2> DEFINE next == [claims |-> [memory.codes.claims EXCEPT ![a] = by],
                      codes |-> [memory.codes.codes EXCEPT ![c] = a]]
  <2>1. \A b \in Agent : memory.codes.claims[b] # None => next.claims[b] = memory.codes.claims[b]
    BY <1>1, <1>3 DEF MintCode, MayMint, ClaimantOf, Codes
  <2>2. Change("codes", next, None)
    BY <1>3 DEF MintCode
  <2> HIDE DEF next
  <2> QED
    BY <1>1, <1>2, <2>1, <2>2
<1>4. ASSUME NEW c \in Code, NEW by \in Person, RevokeCode(c, by)
      PROVE  Claimed'
  <2>1. Without(c).claims = memory.codes.claims
    BY <1>1 DEF Without, Codes
  <2> QED
    BY <1>1, <1>2, <1>4, <2>1 DEF RevokeCode
<1>5. ASSUME NEW o \in Person, NEW p \in Principal, NEW l \in Level, GrantOwner(o, p, l)
      PROVE  Claimed'
  BY <1>2, <1>5 DEF GrantOwner, File
<1>6. ASSUME NEW f \in File, Lands(f)
      PROVE  Claimed'
  <2>1. UNCHANGED <<memory, request, overlapped>>
    BY <1>6 DEF Lands, Rest
  <2>2. /\ DOMAIN queue'["codes"] = DOMAIN queue["codes"]
        /\ \A i \in DOMAIN queue["codes"] : queue'["codes"][i].next = queue["codes"][i].next
    <3>1. \A i \in DOMAIN queue["codes"] : queue["codes"][i] \in Pending("codes")
      BY <1>1
    <3> QED
      BY <1>1, <1>6, <3>1 DEF Lands, Pending, AccessInv, Typed
  <2> QED
    BY <2>1, <2>2 DEF Claimed
<1>7. ASSUME NEW f \in File, queue[f] # <<>>, Served(f), UNCHANGED <<memory, request, overlapped>>
      PROVE  Claimed'
  <2>1. CASE f # "codes"
    <3>1. queue'["codes"] = queue["codes"]
      BY <1>1, <1>7, <2>1, ServedLeaves
    <3> QED
      BY <1>7, <3>1 DEF Claimed
  <2>2. CASE f = "codes"
    <3>1. queue'["codes"] = Tail(queue["codes"])
      BY <1>1, <1>7, <2>2 DEF Served, AccessInv, Typed
    <3>2. "codes" \notin overlapped => DOMAIN queue'["codes"] = {}
      BY <1>7, <2>2, <3>1, AloneInQueue
    <3> QED
      BY <1>7, <3>2 DEF Claimed
  <2> QED
    BY <2>1, <2>2
<1>8. ASSUME NEW f \in File, Answered(f)
      PROVE  Claimed'
  <2>1. UNCHANGED <<request, overlapped>> /\ queue[f] # <<>> /\ Served(f)
    BY <1>8 DEF Answered, Rest
  <2>2. CASE f # "codes"
    <3>1. queue'["codes"] = queue["codes"] /\ memory'["codes"] = memory["codes"]
      BY <1>1, <1>8, <2>1, <2>2, ServedLeaves, AnsweredKeeps
    <3> QED
      BY <2>1, <3>1 DEF Claimed
  <2>3. CASE f = "codes"
    <3>1. queue'["codes"] = Tail(queue["codes"])
      BY <1>1, <2>1, <2>3 DEF Served, AccessInv, Typed
    <3>2. memory'.codes = queue["codes"][1].next /\ 1 \in DOMAIN queue["codes"]
      <4>1. Head(queue["codes"]) = queue["codes"][1] /\ 1 \in DOMAIN queue["codes"]
        BY <1>1, <2>1, <2>3
      <4> QED
        BY <1>8, <2>3, <4>1 DEF Answered, AccessInv, Typed
    <3>3. "codes" \notin overlapped => DOMAIN queue'["codes"] = {}
      BY <2>1, <2>3, <3>1, AloneInQueue
    <3> QED
      BY <2>1, <3>2, <3>3 DEF Claimed
  <2> QED
    BY <2>2, <2>3
<1>9. ASSUME NEW f \in File, Fails(f) \/ Refused(f) \/ Unheard(f)
      PROVE  Claimed'
  BY <1>7, <1>9 DEF Fails, Refused, Unheard, Failed, Rest
<1>10. ASSUME NEW p \in Principal, Arrives(p)
       PROVE  Claimed'
  <2>1. UNCHANGED <<memory, queue, overlapped>> /\ request' = p
    BY <1>10 DEF Arrives, side
  <2>2. p \in Agent => memory.codes.claims[p] # None
    BY <1>10, AccessAssumption DEF Arrives, AgentFor, ClaimantOf
  <2> QED
    BY <2>1, <2>2 DEF Claimed
<1>11. ASSUME \/ \E d \in Diagram : Create(d) \/ RemoveDiagram(d)
              \/ TooMany
       PROVE  Claimed'
  <2>1. UNCHANGED <<memory, queue, overlapped>> /\ request' = None
    BY <1>11 DEF Create, RemoveDiagram, TooMany, side
  <2> QED
    BY <2>1, AccessAssumption DEF Claimed
<1>12. ASSUME NEW c \in Code, Lapse(c)
       PROVE  Claimed'
  BY <1>12 DEF Lapse, side, Claimed
<1>13. ASSUME Restart
       PROVE  Claimed'
  <2>1. queue'["codes"] = <<>> /\ request' = None
    BY <1>1, <1>13 DEF Restart
  <2> QED
    BY <2>1, AccessAssumption DEF Claimed
<1>14. CASE UNCHANGED vars
  BY <1>14 DEF vars, side, Claimed
<1> QED
  BY <1>3, <1>4, <1>5, <1>6, <1>8, <1>9, <1>10, <1>11, <1>12, <1>13, <1>14 DEF Next

LEMMA ClaimedInit == Init => Claimed
<1> SUFFICES ASSUME Init PROVE Claimed
  OBVIOUS
<1>1. queue["codes"] = <<>> /\ request = None
  BY DEF Init, File
<1> QED
  BY <1>1, AccessAssumption DEF Claimed

LEMMA ClaimKept ==
    ASSUME AccessInv, Claimed, [Next]_vars, "codes" \notin overlapped' \cup unheard',
           NEW a \in Agent, memory.codes.claims[a] # None
    PROVE  memory'.codes.claims[a] = memory.codes.claims[a]
<1>1. queue["codes"] \in Seq(Pending("codes")) /\ "codes" \in File
  BY DEF AccessInv, Typed, File
<1>2. ASSUME "codes" \notin overlapped, queue["codes"] # <<>>
      PROVE  /\ 1 \in DOMAIN queue["codes"]
             /\ queue["codes"][1].next.claims[a] = memory.codes.claims[a]
  <2>1. 1 \in DOMAIN queue["codes"]
    BY <1>1, <1>2
  <2> QED
    BY <1>2, <2>1 DEF Claimed
<1>3. ASSUME NEW f \in File, Answered(f)
      PROVE  memory'.codes.claims[a] = memory.codes.claims[a]
  <2>1. /\ UNCHANGED overlapped /\ queue[f] # <<>>
        /\ memory' = [memory EXCEPT ![f] = Head(queue[f]).next]
    BY <1>3 DEF Answered, Rest
  <2>2. CASE f # "codes"
    BY <2>1, <2>2 DEF AccessInv, Typed
  <2>3. CASE f = "codes"
    <3>1. memory'.codes = queue["codes"][1].next
      BY <1>1, <2>1, <2>3 DEF AccessInv, Typed
    <3> QED
      BY <1>2, <2>1, <2>3, <3>1
  <2> QED
    BY <2>2, <2>3
<1>4. ASSUME Restart
      PROVE  memory'.codes.claims[a] = memory.codes.claims[a]
  <2>1. memory' = file /\ "codes" \notin overlapped /\ "codes" \notin unheard
    BY <1>4 DEF Restart
  <2>2. CASE Waiting("codes")
    BY <1>1, <2>1, <2>2 DEF AccessInv, Synchronised
  <2>3. CASE ~Waiting("codes")
    <3>1. queue["codes"] # <<>> /\ queue["codes"][1].stage # "asked"
      BY <2>3 DEF Waiting
    <3>2. queue["codes"][1] \in Pending("codes") /\ 1 \in DOMAIN queue["codes"]
      BY <1>1, <1>2, <2>1, <3>1
    <3>3. file["codes"] = queue["codes"][1].next
      BY <1>1, <3>1, <3>2 DEF Pending, AccessInv, HeadLands
    <3> QED
      BY <1>2, <2>1, <3>1, <3>3
  <2> QED
    BY <2>2, <2>3
<1>5. ASSUME UNCHANGED memory
      PROVE  memory'.codes.claims[a] = memory.codes.claims[a]
  BY <1>5
<1>6. ASSUME NEW f \in File, Lands(f) \/ Refused(f) \/ Fails(f) \/ Unheard(f)
      PROVE  UNCHANGED memory
  BY <1>6 DEF Lands, Refused, Fails, Unheard, Failed
<1>7. ASSUME \/ \E o \in Person, p \in Principal, l \in Level : GrantOwner(o, p, l)
             \/ \E b \in Agent, by \in Person, c \in Code : MintCode(b, by, c)
             \/ \E c \in Code, by \in Person : RevokeCode(c, by)
      PROVE  UNCHANGED memory
  BY <1>7 DEF GrantOwner, MintCode, RevokeCode, Change
<1>8. ASSUME \/ \E p \in Principal : Arrives(p)
             \/ \E d \in Diagram : Create(d) \/ RemoveDiagram(d)
             \/ TooMany
             \/ \E c \in Code : Lapse(c)
      PROVE  UNCHANGED memory
  BY <1>8 DEF Arrives, Create, RemoveDiagram, TooMany, Lapse, side
<1>9. CASE UNCHANGED vars
  BY <1>9 DEF vars, side
<1> QED
  BY <1>3, <1>4, <1>5, <1>6, <1>7, <1>8, <1>9 DEF Next

\* A name claimed stays claimed by the same person when its codes are revoked,
\* lapse or the server restarts (B99): for any number of people and agents, as
\* long as changes of codes do not overlap and no write of theirs lands unheard.
THEOREM ClaimsAreKept == Spec => ClaimsStay
<1>1. AccessInv /\ Claimed /\ [Next]_vars =>
        [\A a \in Agent : ClaimantOf(a) # None /\ "codes" \notin overlapped' \cup unheard'
            => ClaimantOf(a)' = ClaimantOf(a)]_vars
  BY ClaimKept DEF ClaimantOf
<1> QED
  BY <1>1, AccessInit, AccessInductive, ClaimedInit, ClaimedInductive, PTL DEF Spec, ClaimsStay

-----------------------------------------------------------------------------
Owned(p) == {d \in Diagram : owner[d] = p}

LEMMA OwnersInductive ==
    ASSUME IsFiniteSet(Diagram), AccessInv, Claimed, OwnersWithinQuota, [Next]_vars
    PROVE  OwnersWithinQuota'
<1>1. owner \in [Diagram -> Principal \cup {None}] /\ Quota \in Nat
      /\ \A p \in Person : IsFiniteSet(Owned(p)) /\ Cardinality(Owned(p)) \in Nat
  BY AccessAssumption, FS_Subset, FS_CardinalityType DEF AccessInv, Typed, Owned
<1>2. ASSUME UNCHANGED owner, overlapped \subseteq overlapped'
      PROVE  OwnersWithinQuota'
  BY <1>2 DEF OwnersWithinQuota
<1>3. ASSUME NEW d \in Diagram, Create(d), "codes" \notin overlapped
      PROVE  OwnersWithinQuota'
  <2> DEFINE who == OwnerFor(request)
  <2>1. who \in Person
    BY <1>3, AccessAssumption
       DEF Create, OwnerFor, ClaimantOf, Claimed, AccessInv, Typed, Codes, Principal
  <2>2. owner' = [owner EXCEPT ![d] = who] /\ owner[d] = None /\ Cardinality(Owned(who)) < Quota
    BY <1>3 DEF Create, CountOwnedBy, Owned
  <2> HIDE DEF who
  <2>3. ASSUME NEW p \in Person
        PROVE  Cardinality(Owned(p)') <= Quota
    <3>1. CASE p = who
      <4>1. Owned(p)' = Owned(p) \cup {d} /\ d \notin Owned(p)
        BY <1>1, <2>1, <2>2, <3>1, AccessAssumption DEF Owned
      <4>2. Cardinality(Owned(p)') = Cardinality(Owned(p)) + 1
        BY <1>1, <4>1, FS_AddElement
      <4> QED
        BY <1>1, <2>2, <3>1, <4>2
    <3>2. CASE p # who
      <4>1. Owned(p)' = Owned(p)
        BY <1>1, <2>2, <3>2, AccessAssumption DEF Owned
      <4> QED
        BY <1>3, <4>1 DEF OwnersWithinQuota, Owned
    <3> QED
      BY <3>1, <3>2
  <2>4. \A e \in Diagram : owner'[e] \in Person \cup {None}
    BY <1>1, <1>3, <2>1, <2>2 DEF OwnersWithinQuota
  <2> QED
    BY <2>3, <2>4 DEF OwnersWithinQuota, Owned
<1>4. ASSUME NEW d \in Diagram, RemoveDiagram(d), "codes" \notin overlapped
      PROVE  OwnersWithinQuota'
  <2>1. owner' = [owner EXCEPT ![d] = None]
    BY <1>4 DEF RemoveDiagram
  <2>2. ASSUME NEW p \in Person
        PROVE  Cardinality(Owned(p)') <= Quota
    <3>1. Owned(p)' \subseteq Owned(p)
      BY <1>1, <2>1, AccessAssumption DEF Owned
    <3>2. Cardinality(Owned(p)') <= Cardinality(Owned(p)) /\ IsFiniteSet(Owned(p)')
      BY <1>1, <3>1, FS_Subset
    <3>3. Cardinality(Owned(p)') \in Nat /\ Cardinality(Owned(p)) <= Quota
      BY <1>4, <3>2, FS_CardinalityType DEF OwnersWithinQuota, Owned
    <3> QED
      BY <1>1, <3>2, <3>3
  <2>3. \A e \in Diagram : owner'[e] \in Person \cup {None}
    BY <1>1, <1>4, <2>1 DEF OwnersWithinQuota
  <2> QED
    BY <2>2, <2>3 DEF OwnersWithinQuota, Owned
<1>5. ASSUME NEW d \in Diagram, Create(d) \/ RemoveDiagram(d)
      PROVE  UNCHANGED overlapped
  BY <1>5 DEF Create, RemoveDiagram, side
<1>6. ASSUME \/ \E o \in Person, p \in Principal, l \in Level : GrantOwner(o, p, l)
             \/ \E b \in Agent, by \in Person, c \in Code : MintCode(b, by, c)
             \/ \E c \in Code, by \in Person : RevokeCode(c, by)
      PROVE  UNCHANGED owner /\ overlapped \subseteq overlapped'
  BY <1>6 DEF GrantOwner, MintCode, RevokeCode, Change
<1>7. ASSUME NEW f \in File,
             Lands(f) \/ Refused(f) \/ Fails(f) \/ Answered(f) \/ Unheard(f)
      PROVE  UNCHANGED <<owner, overlapped>>
  BY <1>7 DEF Lands, Refused, Fails, Answered, Unheard, Rest
<1>8. ASSUME \/ \E p \in Principal : Arrives(p)
             \/ TooMany
             \/ \E c \in Code : Lapse(c)
             \/ Restart
             \/ UNCHANGED vars
      PROVE  UNCHANGED <<owner, overlapped>>
  BY <1>8 DEF Arrives, TooMany, Lapse, Restart, side, vars
<1>9. ASSUME "codes" \in overlapped, UNCHANGED overlapped
      PROVE  OwnersWithinQuota'
  BY <1>9 DEF OwnersWithinQuota
<1> QED
  BY <1>2, <1>3, <1>4, <1>5, <1>6, <1>7, <1>8, <1>9 DEF Next

\* Nobody owns more diagrams than the quota, whoever of their agents creates
\* them, and every diagram belongs to a person (B100): for any quota and any
\* number of people and agents, as long as changes of codes do not overlap.
THEOREM QuotaHolds ==
    ASSUME IsFiniteSet(Diagram)
    PROVE  Spec => []OwnersWithinQuota
<1>1. Init => OwnersWithinQuota
  <2> SUFFICES ASSUME Init PROVE OwnersWithinQuota
    OBVIOUS
  <2>1. \A d \in Diagram : owner[d] = None
    BY DEF Init
  <2>2. ASSUME NEW p \in Person
        PROVE  Cardinality(Owned(p)) <= Quota
    <3>1. Owned(p) = {}
      BY <2>1, AccessAssumption DEF Owned
    <3>2. Cardinality(Owned(p)) = 0
      BY <3>1, FS_EmptySet
    <3> QED
      BY <3>2, AccessAssumption
  <2> QED
    BY <2>1, <2>2 DEF OwnersWithinQuota, Owned
<1>2. AccessInv /\ Claimed /\ OwnersWithinQuota /\ [Next]_vars => OwnersWithinQuota'
  BY OwnersInductive
<1> QED
  BY <1>1, <1>2, AccessInit, AccessInductive, ClaimedInit, ClaimedInductive, PTL DEF Spec
=============================================================================
